---------------------------- MODULE Spec2Model ----------------------------
(***************************************************************************)
(* Model of the Outlook attachment extractor and the document classifier:  *)
(*   core/backend_base.py     process control (pause / resume / cancel,    *)
(*                            the template method ejecutar)                *)
(*   core/sign_classifier.py  ClasificadorDocumentos                       *)
(*   core/email_extractor.py  ExtractorAdjuntosOutlook                     *)
(*   utils/audit_mails.py     EmailAuditor (the audit ledger)              *)
(*   utils/date_handler.py    date normalisation                           *)
(*                                                                         *)
(* A backend runs on one worker thread; pausar / reanudar / cancelar are   *)
(* called from the controlling thread.  Each controller call is one step;  *)
(* the worker's steps are cut at the places where it reads the control     *)
(* flags (its checkpoints) and where it changes the process state.         *)
(*                                                                         *)
(* Text is a sequence of one-character strings, so that lower(), strip()   *)
(* and the substring test can be computed.                                 *)
(***************************************************************************)
EXTENDS Integers, Sequences, FiniteSets, TLC

VARIABLES
    \* ---- BackendBase (one backend instance) ----
    estado_actual,        \* self.estado_actual
    fase_actual,          \* self.fase_actual
    estado_antes_pausa,   \* self._estado_antes_pausa ("SIN_ATRIBUTO" until set)
    event_pausa,          \* self._event_pausa.is_set()
    event_cancelar,       \* self._event_cancelar.is_set()
    h_tras_pausa,         \* history: items the worker handled since pausar() took effect
    ctl_pc,               \* the controlling thread: "libre", or inside pausar() / reanudar()
                          \* between the test of estado_actual and the writes
    h_llamada,            \* history: the last pausar() / reanudar() call and the state it found
    h_cancel_en_run,      \* history: a cancel() was made after the run's entry point was called
    h_cancel_chequeo,     \* history: procesados when cancel() found the classifier between two files
    h_cancel_filtrando,   \* history: a cancel() was made while the extractor was in its filter stage
    h_previa,             \* history: the report and final state of the previous run on the folder
    h_notificado,         \* history: the last state handed to callback_estado
    h_repetido,           \* history: callback_estado got the state it had got just before
    mensaje_error,        \* detail of the last error-level message of ejecutar / extraer_adjuntos
    \* ---- BaseWorker (the QRunnable that runs the backend) ----
    wk_cancelled,         \* self._cancelled
    senales,              \* the terminal signals emitted (finished / error), in order
    \* ---- ClasificadorDocumentos ----
    cla_pc,               \* position of the worker inside ejecutar
    archivos,             \* the files iterdir() yields, in its order
    cla_idx,              \* position of the for loop over archivos
    procesados,           \* local counter of _procesar_principal
    est_cla,              \* self.estadisticas (EstadisticasClasificacion)
    cancelado,            \* self.cancelado
    en_origen,            \* file names in the source folder
    en_firmados,          \* file names in "Documentos Firmados"
    en_sin_firmar,        \* file names in "Documentos sin Firmar"
    cla_resultado,        \* what ejecutar handed to its caller
    h_cancel_pausa,       \* history: procesados when cancelar() found the worker blocked in the pause wait
    \* ---- ExtractorAdjuntosOutlook ----
    ext_pc,               \* position of the worker inside extraer_adjuntos
    items,                \* the folder's messages, sorted by ReceivedTime descending
    frases,               \* the phrases given by the caller (raw)
    fecha_inicio,         \* the caller's start date
    fecha_fin,            \* the caller's end date
    idx,                  \* loop index of the running stage (1-based)
    correos_filtrados,    \* the accepted descriptors
    fuera_rango_consecutivos,
    registros,            \* self.auditor.registros
    ext_cancelado,        \* self._cancelado
    est_ext,              \* self.estadisticas (EstadisticasExtraccion)
    conectado,            \* CoInitialize calls minus CoUninitialize calls of the extractor
    ext_resultado,        \* what extraer_adjuntos handed to its caller
    destino,              \* the caller's destination folder (text)
    outlook_folder,       \* the caller's Outlook folder path (text)
    en_destino,           \* the files of the destination folder
    h_actualizaciones,    \* history: the actualizar_descarga calls of the download stage
    \* ---- EmailAuditor used on its own ----
    aud_pc,
    aud_estadisticas      \* what the last get_estadisticas() returned (nothing after a registration)

vars == << estado_actual, fase_actual, estado_antes_pausa, event_pausa, event_cancelar,
           h_tras_pausa, ctl_pc, h_llamada, h_cancel_en_run, h_cancel_chequeo, h_cancel_filtrando,
           h_previa, h_notificado,
           h_repetido, mensaje_error, wk_cancelled, senales,
           cla_pc, archivos, cla_idx, procesados, est_cla, cancelado,
           en_origen, en_firmados, en_sin_firmar, cla_resultado, h_cancel_pausa,
           ext_pc, items, frases, fecha_inicio, fecha_fin, idx, correos_filtrados,
           fuera_rango_consecutivos, registros, ext_cancelado, est_ext, conectado,
           ext_resultado, destino, outlook_folder, en_destino, h_actualizaciones,
           aud_pc, aud_estadisticas >>

\* the variables of the auditor used on its own
aud_vars == << aud_pc, aud_estadisticas >>

base_vars == << estado_actual, fase_actual, estado_antes_pausa, event_pausa, event_cancelar,
                h_tras_pausa >>

cla_vars_sin_pc == << archivos, cla_idx, procesados, est_cla, cancelado,
                      en_origen, en_firmados, en_sin_firmar, cla_resultado, h_cancel_pausa >>

cla_vars == << cla_pc, archivos, cla_idx, procesados, est_cla, cancelado,
               en_origen, en_firmados, en_sin_firmar, cla_resultado, h_cancel_pausa >>

\* what the controlling thread's calls record
obs_ctl == << ctl_pc, h_llamada, h_cancel_en_run, h_cancel_chequeo, h_cancel_filtrando,
             h_previa, wk_cancelled >>

\* what callback_estado has received
obs_not == << h_notificado, h_repetido >>

ext_vars == << ext_pc, items, frases, fecha_inicio, fecha_fin, idx, correos_filtrados,
               fuera_rango_consecutivos, registros, ext_cancelado, est_ext, conectado,
               ext_resultado, destino, outlook_folder, en_destino, h_actualizaciones >>

-----------------------------------------------------------------------------
(* Bounds of the model *)

MaxArchivos == 2
MaxItems == 2
MaxRegistros == 2
LargoFlujo == 200
RecientesEnVentana == 5
MaxGuardados == 3
MaxLedger == 10
MaxPosteriores == 1

-----------------------------------------------------------------------------
(* Text *)

\* str.lower() on one character
LowerChar(c) ==
    CASE c = "A" -> "a"
      [] c = "B" -> "b"
      [] c = "D" -> "d"
      [] c = "E" -> "e"
      [] c = "F" -> "f"
      [] c = "G" -> "g"
      [] c = "I" -> "i"
      [] c = "N" -> "n"
      [] c = "O" -> "o"
      [] c = "S" -> "s"
      [] c = "T" -> "t"
      [] OTHER -> c

Lower(s) == [i \in 1..Len(s) |-> LowerChar(s[i])]

\* Python's "sub in s"
Contiene(s, sub) ==
    \E i \in 0..(Len(s) - Len(sub)) : SubSeq(s, i + 1, i + Len(sub)) = sub

RECURSIVE LStrip(_)
LStrip(s) == IF s # << >> /\ Head(s) = " " THEN LStrip(Tail(s)) ELSE s

RECURSIVE RStrip(_)
RStrip(s) == IF s # << >> /\ s[Len(s)] = " " THEN RStrip(SubSeq(s, 1, Len(s) - 1)) ELSE s

\* str.strip()
Strip(s) == RStrip(LStrip(s))

\* [f(x) for x in s if p(x)] for the phrase list: strip().lower() of the non-blank ones
RECURSIVE NormalizarFrases(_)
NormalizarFrases(fs) ==
    IF fs = << >> THEN << >>
    ELSE IF Strip(Head(fs)) # << >>
         THEN << Lower(Strip(Head(fs))) >> \o NormalizarFrases(Tail(fs))
         ELSE NormalizarFrases(Tail(fs))

\* any(frase in texto for frase in frases_norm)
CoincideAlguna(texto, frases_norm) ==
    \E k \in 1..Len(frases_norm) : Contiene(texto, frases_norm[k])

-----------------------------------------------------------------------------
(* BackendBase: process control *)

EstadosProceso == { "DETENIDO", "INICIANDO", "FILTRANDO", "PROCESANDO", "CLASIFICANDO",
                    "EN_EJECUCION", "PAUSADO", "COMPLETADO", "CANCELADO", "ERROR" }

\* a pausar() that also acts on a process that is already paused
PausablesConPausado == { "EN_EJECUCION", "FILTRANDO", "PROCESANDO", "CLASIFICANDO", "PAUSADO" }

\* the states in which pausar() acts
EstadosPausables == { "EN_EJECUCION", "FILTRANDO", "PROCESANDO", "CLASIFICANDO" }

\* a reanudar() that forgets the recorded state and always resumes in EN_EJECUCION
ReanudarSinMemoria(antes) == "EN_EJECUCION"

\* the state reanudar() goes back to
EstadoAlReanudar(antes) == IF antes # "SIN_ATRIBUTO" THEN antes ELSE "EN_EJECUCION"

\* pausar(): the fields it writes
PausarBase ==
    IF estado_actual \in EstadosPausables
    THEN /\ estado_antes_pausa' = estado_actual
         /\ event_pausa' = FALSE
         /\ estado_actual' = "PAUSADO"
         /\ h_tras_pausa' = 0
    ELSE UNCHANGED << estado_antes_pausa, event_pausa, estado_actual, h_tras_pausa >>

\* reanudar(): the fields it writes
ReanudarBase ==
    IF estado_actual = "PAUSADO"
    THEN /\ event_pausa' = TRUE
         /\ estado_actual' = EstadoAlReanudar(estado_antes_pausa)
         /\ UNCHANGED estado_antes_pausa
    ELSE UNCHANGED << estado_antes_pausa, event_pausa, estado_actual >>

\* BackendBase.cancelar(): the fields it writes
CancelarBase ==
    IF estado_actual # "DETENIDO"
    THEN /\ event_cancelar' = TRUE
         /\ event_pausa' = IF estado_actual = "PAUSADO" THEN TRUE ELSE event_pausa
    ELSE UNCHANGED << event_cancelar, event_pausa >>

\* no run has been made on the folder before this one
SinCorridaPrevia == [ reporte |-> [ tipo |-> "nada" ], estado |-> "NINGUNO" ]

BaseInit ==
    /\ estado_actual = "DETENIDO"
    /\ fase_actual = "INICIAL"
    /\ estado_antes_pausa = "SIN_ATRIBUTO"
    /\ event_pausa = TRUE
    /\ event_cancelar = FALSE
    /\ h_tras_pausa = 0
    /\ ctl_pc = "libre"
    /\ h_llamada = [ op |-> "ninguna", en |-> "DETENIDO" ]
    /\ h_cancel_en_run = FALSE
    /\ h_cancel_chequeo = -1
    /\ h_cancel_filtrando = FALSE
    /\ h_previa = SinCorridaPrevia
    /\ h_notificado = "NINGUNO"
    /\ h_repetido = FALSE
    /\ mensaje_error = ""
    /\ wk_cancelled = FALSE
    /\ senales = << >>

\* _cambiar_estado(nuevo): what callback_estado(nuevo) adds to the history
Notificar(nuevo) ==
    /\ h_notificado' = nuevo
    /\ h_repetido' = (h_repetido \/ h_notificado = nuevo)

\* what the entry point has handed to its caller: nothing yet, a raised exception,
\* or a result mapping (a record with tipo = "mapa")
SinResultado == [ tipo |-> "nada" ]
Excepcion(nombre) == [ tipo |-> "excepcion", nombre |-> nombre ]

\* an except clause that re-raises without reporting the error
ManejarSinMensaje(nombre) ==
    [ estado |-> "ERROR", mensaje |-> "", resultado |-> Excepcion(nombre) ]

\* ejecutar(): "except Exception as e" - the state, the detail of the error-level message
\* and what the caller gets (the same exception, raised again)
ManejarExcepcion(nombre) ==
    [ estado |-> "ERROR", mensaje |-> nombre, resultado |-> Excepcion(nombre) ]

\* pausar(), called from the controlling thread
Pausar ==
    /\ ctl_pc = "libre"
    /\ PausarBase
    /\ UNCHANGED << fase_actual, event_cancelar, cla_vars, ext_vars, aud_vars >>
    /\ h_llamada' = [ op |-> "pausar", en |-> estado_actual ]
    /\ IF estado_actual \in EstadosPausables THEN Notificar("PAUSADO") ELSE UNCHANGED obs_not
    /\ UNCHANGED << ctl_pc, h_cancel_en_run, h_cancel_chequeo, h_cancel_filtrando,
                    h_previa, wk_cancelled, mensaje_error, senales >>

\* reanudar(), called from the controlling thread
Reanudar ==
    /\ ctl_pc = "libre"
    /\ ReanudarBase
    /\ UNCHANGED << fase_actual, event_cancelar, h_tras_pausa, cla_vars, ext_vars, aud_vars >>
    /\ h_llamada' = [ op |-> "reanudar", en |-> estado_actual ]
    /\ IF estado_actual = "PAUSADO"
       THEN Notificar(EstadoAlReanudar(estado_antes_pausa)) ELSE UNCHANGED obs_not
    /\ UNCHANGED << ctl_pc, h_cancel_en_run, h_cancel_chequeo, h_cancel_filtrando,
                    h_previa, wk_cancelled, mensaje_error, senales >>

\* pausar() up to its test of estado_actual, when the test succeeds: the worker thread
\* may run before the writes that follow
PausarPrueba ==
    /\ ctl_pc = "libre"
    /\ estado_actual \in EstadosPausables
    /\ ctl_pc' = "pausar"
    /\ h_llamada' = [ op |-> "pausar", en |-> estado_actual ]
    /\ UNCHANGED << base_vars, cla_vars, ext_vars, aud_vars, obs_not, h_cancel_en_run,
                    h_cancel_chequeo, h_cancel_filtrando, h_previa, wk_cancelled, mensaje_error,
                    senales >>

\* pausar() after its test: the writes, on the state as it is by then
PausarEscritura ==
    /\ ctl_pc = "pausar"
    /\ estado_antes_pausa' = estado_actual
    /\ event_pausa' = FALSE
    /\ estado_actual' = "PAUSADO"
    /\ h_tras_pausa' = 0
    /\ Notificar("PAUSADO")
    /\ ctl_pc' = "libre"
    /\ UNCHANGED << fase_actual, event_cancelar, cla_vars, ext_vars, aud_vars, h_llamada,
                    h_cancel_en_run, h_cancel_chequeo, h_cancel_filtrando, h_previa, wk_cancelled,
                    mensaje_error, senales >>

\* reanudar() up to its test of estado_actual, when the test succeeds
ReanudarPrueba ==
    /\ ctl_pc = "libre"
    /\ estado_actual = "PAUSADO"
    /\ ctl_pc' = "reanudar"
    /\ h_llamada' = [ op |-> "reanudar", en |-> estado_actual ]
    /\ UNCHANGED << base_vars, cla_vars, ext_vars, aud_vars, obs_not, h_cancel_en_run,
                    h_cancel_chequeo, h_cancel_filtrando, h_previa, wk_cancelled, mensaje_error,
                    senales >>

\* reanudar() after its test: the event and the state it goes back to
ReanudarEscritura ==
    /\ ctl_pc = "reanudar"
    /\ event_pausa' = TRUE
    /\ estado_actual' = EstadoAlReanudar(estado_antes_pausa)
    /\ Notificar(EstadoAlReanudar(estado_antes_pausa))
    /\ ctl_pc' = "libre"
    /\ UNCHANGED << fase_actual, estado_antes_pausa, event_cancelar, h_tras_pausa, cla_vars,
                    ext_vars, aud_vars, h_llamada, h_cancel_en_run, h_cancel_chequeo,
                    h_cancel_filtrando, h_previa, wk_cancelled, mensaje_error, senales >>

\* BaseWorker.run() after process() ended: finished when it returned, error when it
\* raised, and neither when the worker was cancelled
SenalTerminal(pc) == IF pc = "retornado" THEN "finished" ELSE "error"

SenalesTrasRun(pc) == IF ~wk_cancelled THEN Append(senales, SenalTerminal(pc)) ELSE senales

\* the worker handled one more item: counted while the state is PAUSADO
TrasPausa == IF estado_actual = "PAUSADO" THEN h_tras_pausa + 1 ELSE h_tras_pausa

-----------------------------------------------------------------------------
(* ClasificadorDocumentos *)

N_Firmado == << "F", "i", "r", "m", "a", "d", "o" >>
N_NOT_SIGNED == << "N", "O", "T", "_", "S", "I", "G", "N", "E", "D" >>
N_signed_not_signed ==
    << "s", "i", "g", "n", "e", "d", "_", "n", "o", "t", "_", "s", "i", "g", "n", "e", "d" >>
N_sin_firmar == << "s", "i", "n", " ", "f", "i", "r", "m", "a", "r" >>
N_doc == << "d", "o", "c" >>
N_sin_firmar_guion == << "s", "i", "n", "_", "f", "i", "r", "m", "a", "r" >>
N_sinfirmar == << "s", "i", "n", "f", "i", "r", "m", "a", "r" >>
N_not_signed_espacio == << "n", "o", "t", " ", "s", "i", "g", "n", "e", "d" >>
N_notsigned_firmado == << "n", "o", "t", "s", "i", "g", "n", "e", "d", " ", "f", "i", "r", "m", "a", "d", "o" >>
N_signed == << "s", "i", "g", "n", "e", "d" >>

\* the file names the source folder may hold
NombresArchivo ==
    { N_Firmado, N_NOT_SIGNED, N_signed_not_signed, N_sin_firmar, N_doc, N_sin_firmar_guion,
      N_sinfirmar, N_not_signed_espacio, N_notsigned_firmado, N_signed }

MarcasSinFirmar ==
    { << "s", "i", "n", " ", "f", "i", "r", "m", "a", "r" >>,
      << "s", "i", "n", "_", "f", "i", "r", "m", "a", "r" >>,
      << "s", "i", "n", "f", "i", "r", "m", "a", "r" >>,
      << "n", "o", "t", " ", "s", "i", "g", "n", "e", "d" >>,
      << "n", "o", "t", "_", "s", "i", "g", "n", "e", "d" >>,
      << "n", "o", "t", "s", "i", "g", "n", "e", "d" >> }

MarcasFirmado ==
    { << "f", "i", "r", "m", "a", "d", "o" >>, << "s", "i", "g", "n", "e", "d" >> }

\* a _clasificar_archivo() that looks for the signed markers first
ClasificacionFirmadoPrimero(nombre) ==
    LET nombre_lower == Lower(nombre) IN
    IF \E m \in MarcasFirmado : Contiene(nombre_lower, m) THEN "firmado"
    ELSE IF \E m \in MarcasSinFirmar : Contiene(nombre_lower, m) THEN "sin_firmar"
    ELSE "omitido"

\* the branch _clasificar_archivo takes for a file name
Clasificacion(nombre) ==
    LET nombre_lower == Lower(nombre) IN
    IF \E m \in MarcasSinFirmar : Contiene(nombre_lower, m) THEN "sin_firmar"
    ELSE IF \E m \in MarcasFirmado : Contiene(nombre_lower, m) THEN "firmado"
    ELSE "omitido"

EstadisticasClasificacion ==
    [ total |-> 0, firmados |-> 0, sin_firmar |-> 0, omitidos |-> 0, errores |-> 0 ]

\* a report that leaves out the skipped files
ReporteSinOmitidos(est) ==
    [ tipo |-> "mapa", total |-> est.total, firmados |-> est.firmados,
      sin_firmar |-> est.sin_firmar, omitidos |-> 0, errores |-> est.errores ]

\* _generar_reporte(): the counters as a mapping
ReporteClasificacion(est) ==
    [ tipo |-> "mapa", total |-> est.total, firmados |-> est.firmados,
      sin_firmar |-> est.sin_firmar, omitidos |-> est.omitidos, errores |-> est.errores ]

\* the sequences of distinct names of length n over S
SecuenciasSinRepetir(S, n) ==
    { q \in [1..n -> S] : \A i, j \in 1..n : i # j => q[i] # q[j] }

ClaInit ==
    /\ cla_pc = "inactivo"
    /\ \E n \in 0..MaxArchivos : archivos \in SecuenciasSinRepetir(NombresArchivo, n)
    /\ cla_idx = 1
    /\ procesados = 0
    /\ est_cla = EstadisticasClasificacion
    /\ cancelado = FALSE
    /\ en_origen = { archivos[i] : i \in 1..Len(archivos) }
    /\ en_firmados = { }
    /\ en_sin_firmar = { }
    /\ cla_resultado = SinResultado
    /\ h_cancel_pausa = -1

\* ejecutar(): validation, control reset, INICIANDO
Ejecutar ==
    /\ cla_pc = "inactivo"
    /\ \E es_valido \in BOOLEAN :
         IF es_valido
         THEN /\ event_pausa' = TRUE
              /\ event_cancelar' = FALSE
              /\ estado_actual' = "INICIANDO"
              /\ cla_pc' = "principal"
              /\ UNCHANGED cla_resultado
         ELSE \* ValueError, caught by "except Exception" and raised again
              /\ estado_actual' = ManejarExcepcion("ValueError").estado
              /\ cla_pc' = "lanzado"
              /\ cla_resultado' = ManejarExcepcion("ValueError").resultado
              /\ UNCHANGED << event_pausa, event_cancelar >>
    /\ UNCHANGED << fase_actual, estado_antes_pausa, h_tras_pausa, archivos, cla_idx,
                    procesados, est_cla, cancelado, en_origen, en_firmados,
                    en_sin_firmar, h_cancel_pausa, ext_vars, aud_vars >>
    /\ IF cla_pc' = "principal"
       THEN Notificar("INICIANDO") /\ UNCHANGED mensaje_error
       ELSE \* "Validacion fallida: ..." before the raise, then "Error: ..." of the except
            \* clause: both carry the validation message
            /\ Notificar(ManejarExcepcion("ValueError").estado)
            /\ mensaje_error' = "ValueError"
    /\ UNCHANGED << obs_ctl, senales >>

\* _procesar_principal() up to the for loop
ProcesarPrincipal ==
    /\ cla_pc = "principal"
    /\ cancelado' = FALSE
    /\ procesados' = 0
    /\ cla_idx' = 1
    /\ \E carpetas_ok \in BOOLEAN :
         IF ~carpetas_ok
         THEN \* Exception("No se pudo crear carpeta ..."), ejecutar sets ERROR and raises
              /\ est_cla' = EstadisticasClasificacion
              /\ fase_actual' = "INICIAL"
              /\ estado_actual' = ManejarExcepcion("Exception").estado
              /\ cla_pc' = "lanzado"
              /\ cla_resultado' = ManejarExcepcion("Exception").resultado
         ELSE /\ est_cla' = [ EstadisticasClasificacion EXCEPT !.total = Len(archivos) ]
              /\ UNCHANGED cla_resultado
              /\ IF Len(archivos) = 0
                 THEN /\ fase_actual' = "INICIAL"
                      /\ cla_pc' = "post"
                      /\ UNCHANGED estado_actual
                 ELSE /\ fase_actual' = "CLASIFICANDO"
                      /\ estado_actual' = "CLASIFICANDO"
                      /\ cla_pc' = "chequeo"
    /\ UNCHANGED << estado_antes_pausa, event_pausa, event_cancelar, h_tras_pausa,
                    archivos, en_origen, en_firmados, en_sin_firmar, h_cancel_pausa,
                    ext_vars, aud_vars >>
    /\ IF cla_pc' = "lanzado"
       THEN /\ Notificar(ManejarExcepcion("Exception").estado)
            /\ mensaje_error' = ManejarExcepcion("Exception").mensaje
       ELSE IF cla_pc' = "chequeo" THEN Notificar("CLASIFICANDO") /\ UNCHANGED mensaje_error
       ELSE UNCHANGED << obs_not, mensaje_error >>
    /\ UNCHANGED << obs_ctl, senales >>

\* top of the loop body: "if self.cancelado: break" and _verificar_cancelacion()
Chequeo ==
    /\ cla_pc = "chequeo"
    /\ IF cla_idx > Len(archivos) \/ cancelado
       THEN /\ cla_pc' = "finalizar"
            /\ UNCHANGED << estado_actual, cla_resultado >>
       ELSE IF event_cancelar
       THEN \* InterruptedError: ejecutar sets CANCELADO and returns _generar_reporte()
            /\ estado_actual' = "CANCELADO"
            /\ cla_pc' = "retornado"
            /\ cla_resultado' = ReporteClasificacion(est_cla)
       ELSE /\ cla_pc' = "espera"
            /\ UNCHANGED << estado_actual, cla_resultado >>
    /\ UNCHANGED << fase_actual, estado_antes_pausa, event_pausa, event_cancelar,
                    h_tras_pausa, archivos, cla_idx, procesados, est_cla, cancelado,
                    en_origen, en_firmados, en_sin_firmar, h_cancel_pausa, ext_vars, aud_vars >>
    /\ IF cla_pc' = "retornado" THEN Notificar("CANCELADO") ELSE UNCHANGED obs_not
    /\ UNCHANGED << obs_ctl, mensaje_error, senales >>

\* _verificar_pausa(): self._event_pausa.wait()
VerificarPausa ==
    /\ cla_pc = "espera"
    /\ event_pausa
    /\ cla_pc' = "clasificar"
    /\ UNCHANGED << base_vars, archivos, cla_idx, procesados, est_cla, cancelado,
                    en_origen, en_firmados, en_sin_firmar, cla_resultado, h_cancel_pausa,
                    ext_vars, aud_vars >>
    /\ UNCHANGED << obs_ctl, obs_not, mensaje_error, senales >>

\* an except clause that also counts the file as skipped
ContarErrorYOmitido(est) == [ est EXCEPT !.errores = @ + 1, !.omitidos = @ + 1 ]

\* _clasificar_archivo(): "except PermissionError" and "except Exception"
ContarError(est) == [ est EXCEPT !.errores = @ + 1 ]

\* a copy to the destination folder: the file stays in the source folder
OrigenTrasCopiar(origen, archivo) == origen

\* shutil.move(archivo, destino): the file is no longer in the source folder
OrigenTrasMover(origen, archivo) == origen \ { archivo }

\* _clasificar_archivo(archivo) and the rest of the loop body
ClasificarArchivo ==
    /\ cla_pc = "clasificar"
    /\ LET archivo == archivos[cla_idx]
           clase == Clasificacion(archivo)
       IN  \E mover_ok \in BOOLEAN :
             IF clase = "omitido"
             THEN /\ mover_ok
                  /\ est_cla' = [ est_cla EXCEPT !.omitidos = @ + 1 ]
                  /\ UNCHANGED << en_origen, en_firmados, en_sin_firmar >>
             ELSE IF ~mover_ok
             THEN \* PermissionError or another exception of shutil.move
                  /\ est_cla' = ContarError(est_cla)
                  /\ UNCHANGED << en_origen, en_firmados, en_sin_firmar >>
             ELSE IF clase = "sin_firmar"
             THEN /\ est_cla' = [ est_cla EXCEPT !.sin_firmar = @ + 1 ]
                  /\ en_origen' = OrigenTrasMover(en_origen, archivo)
                  /\ en_sin_firmar' = en_sin_firmar \cup { archivo }
                  /\ UNCHANGED en_firmados
             ELSE /\ est_cla' = [ est_cla EXCEPT !.firmados = @ + 1 ]
                  /\ en_origen' = OrigenTrasMover(en_origen, archivo)
                  /\ en_firmados' = en_firmados \cup { archivo }
                  /\ UNCHANGED en_sin_firmar
    /\ procesados' = procesados + 1
    /\ cla_idx' = cla_idx + 1
    /\ h_tras_pausa' = TrasPausa
    /\ cla_pc' = "chequeo"
    /\ UNCHANGED << estado_actual, fase_actual, estado_antes_pausa, event_pausa,
                    event_cancelar, archivos, cancelado, cla_resultado, h_cancel_pausa,
                    ext_vars, aud_vars >>
    /\ UNCHANGED << obs_ctl, obs_not, mensaje_error, senales >>

\* a loop end that reports COMPLETADO whether or not the run was cancelled
EstadoSiempreCompletado(fue_cancelado) == "COMPLETADO"

\* the state _procesar_principal sets after the loop
EstadoTrasBucle(fue_cancelado) == IF fue_cancelado THEN "CANCELADO" ELSE "COMPLETADO"

\* after the loop: FINALIZACION, CANCELADO or COMPLETADO, return of the report
Finalizar ==
    /\ cla_pc = "finalizar"
    /\ fase_actual' = "FINALIZACION"
    /\ estado_actual' = EstadoTrasBucle(cancelado)
    /\ cla_pc' = "post"
    /\ UNCHANGED << estado_antes_pausa, event_pausa, event_cancelar, h_tras_pausa,
                    cla_vars_sin_pc, ext_vars, aud_vars >>
    /\ Notificar(EstadoTrasBucle(cancelado))
    /\ UNCHANGED << obs_ctl, mensaje_error, senales >>

\* ejecutar() after _procesar_principal returned: COMPLETADO unless the event is set
EjecutarRetorno ==
    /\ cla_pc = "post"
    /\ estado_actual' = IF ~event_cancelar THEN "COMPLETADO" ELSE estado_actual
    /\ cla_resultado' = ReporteClasificacion(est_cla)
    /\ cla_pc' = "retornado"
    /\ UNCHANGED << fase_actual, estado_antes_pausa, event_pausa, event_cancelar,
                    h_tras_pausa, archivos, cla_idx, procesados, est_cla, cancelado,
                    en_origen, en_firmados, en_sin_firmar, h_cancel_pausa, ext_vars, aud_vars >>
    /\ IF ~event_cancelar THEN Notificar("COMPLETADO") ELSE UNCHANGED obs_not
    /\ UNCHANGED << obs_ctl, mensaje_error, senales >>

\* the worker is inside wait() with the event cleared
BloqueadoEnPausa == cla_pc = "espera" /\ ~event_pausa

\* the worker is between two files: file procesados is done, the checkpoint of the next
\* one is not reached
EntreArchivos == cla_pc = "chequeo" /\ cla_idx <= Len(archivos)

\* ClassifierWorker.cancel(): BaseWorker.cancel() and ClasificadorDocumentos.cancelar(),
\* called from the controlling thread
CancelarClasificador ==
    /\ cla_pc # "ninguno"
    /\ ctl_pc = "libre"
    /\ CancelarBase
    /\ cancelado' = TRUE
    /\ h_cancel_pausa' = IF BloqueadoEnPausa /\ h_cancel_pausa = -1
                         THEN procesados ELSE h_cancel_pausa
    /\ UNCHANGED << estado_actual, fase_actual, estado_antes_pausa, h_tras_pausa,
                    cla_pc, archivos, cla_idx, procesados, est_cla, en_origen,
                    en_firmados, en_sin_firmar, cla_resultado, ext_vars, aud_vars >>
    /\ wk_cancelled' = TRUE
    /\ h_cancel_en_run' = (h_cancel_en_run \/ cla_pc # "inactivo")
    /\ h_cancel_chequeo' = IF EntreArchivos /\ h_cancel_chequeo = -1
                           THEN procesados ELSE h_cancel_chequeo
    /\ UNCHANGED << ctl_pc, h_llamada, h_cancel_filtrando, h_previa, obs_not, mensaje_error,
                    senales >>

\* BaseWorker.run() of a ClassifierWorker after process() ended
FinClassifierWorker ==
    /\ cla_pc \in { "retornado", "lanzado" }
    /\ senales' = SenalesTrasRun(cla_pc)
    /\ cla_pc' = "terminado"
    /\ UNCHANGED << base_vars, obs_ctl, obs_not, mensaje_error, cla_vars_sin_pc, ext_vars,
                    aud_vars >>

\* a listing that descends into the subfolders of the source folder
ListarRecursivo(origen, firmados, sin_firmar) == origen \cup firmados \cup sin_firmar

\* "[f for f in carpeta_path.iterdir() if f.is_file()]": the files directly in the
\* source folder; "Documentos Firmados" and "Documentos sin Firmar" are directories
\* of it, and what they hold is not listed
ListarArchivos(origen, firmados, sin_firmar) == origen

\* the user starts the classification again on the same folder after a run that
\* returned a report: a new ClassifierWorker with a new ClasificadorDocumentos, which
\* will list the folder as the previous run left it
NuevaCorrida ==
    /\ cla_pc = "terminado"
    /\ ctl_pc = "libre"
    /\ cla_resultado.tipo = "mapa"
    /\ h_previa = SinCorridaPrevia
    /\ h_previa' = [ reporte |-> cla_resultado, estado |-> estado_actual ]
    /\ estado_actual' = "DETENIDO"
    /\ fase_actual' = "INICIAL"
    /\ estado_antes_pausa' = "SIN_ATRIBUTO"
    /\ event_pausa' = TRUE
    /\ event_cancelar' = FALSE
    /\ h_tras_pausa' = 0
    /\ h_llamada' = [ op |-> "ninguna", en |-> "DETENIDO" ]
    /\ h_cancel_en_run' = FALSE
    /\ h_cancel_chequeo' = -1
    /\ h_notificado' = "NINGUNO"
    /\ h_repetido' = FALSE
    /\ mensaje_error' = ""
    /\ wk_cancelled' = FALSE
    /\ senales' = << >>
    /\ cla_pc' = "inactivo"
    /\ LET listados == ListarArchivos(en_origen, en_firmados, en_sin_firmar)
       IN  archivos' \in SecuenciasSinRepetir(listados, Cardinality(listados))
    /\ cla_idx' = 1
    /\ procesados' = 0
    /\ est_cla' = EstadisticasClasificacion
    /\ cancelado' = FALSE
    /\ cla_resultado' = SinResultado
    /\ h_cancel_pausa' = -1
    /\ UNCHANGED << ctl_pc, h_cancel_filtrando, en_origen, en_firmados, en_sin_firmar,
                    ext_vars, aud_vars >>

-----------------------------------------------------------------------------
(* utils/date_handler.py.  A datetime is [dia, tick, tz]: the calendar date, *)
(* the time of day (0 is time.min, 2 is time.max) and whether it carries a   *)
(* time zone.                                                                *)

\* None as a value of the same shape
NoneDate == [ dia |-> 0, tick |-> 0, tz |-> "None" ]

normalize_to_naive(dt) == IF dt.tz = "None" THEN dt ELSE [ dt EXCEPT !.tz = "naive" ]

get_day_start(dt) == [ normalize_to_naive(dt) EXCEPT !.tick = 0 ]

get_day_end(dt) == [ normalize_to_naive(dt) EXCEPT !.tick = 2 ]

\* datetime's < on two naive values
Antes(a, b) == a.dia < b.dia \/ (a.dia = b.dia /\ a.tick < b.tick)

validate_date_range(inicio, fin) ==
    IF inicio.tz = "None" \/ fin.tz = "None" THEN FALSE
    ELSE ~Antes(normalize_to_naive(fin), normalize_to_naive(inicio))

-----------------------------------------------------------------------------
(* utils/audit_mails.py: EmailAuditor *)

\* registrar_correo(): the ledger with one record appended
registrar_correo(regs, entry_id, received_time, subject, sender, cumple_fecha, cumple_frases, tiene_adjuntos, num_adjuntos, adjuntos_nombres, adjuntos_descargados, estado_final, motivo_rechazo, fase_proceso) ==
    Append(regs,
           [ entry_id |-> entry_id, received_time |-> received_time, subject |-> subject,
             sender |-> sender, cumple_fecha |-> cumple_fecha,
             cumple_frases |-> cumple_frases, tiene_adjuntos |-> tiene_adjuntos,
             num_adjuntos |-> num_adjuntos,
             adjuntos_nombres |-> << "json", adjuntos_nombres >>,
             adjuntos_descargados |-> adjuntos_descargados, estado_final |-> estado_final,
             motivo_rechazo |-> motivo_rechazo, fase_proceso |-> fase_proceso ])

\* the positions of the records with this entry_id
PosicionesDe(regs, entry_id) == { i \in 1..Len(regs) : regs[i].entry_id = entry_id }

\* an actualizar_descarga() that writes the reason unconditionally
RegistroSobrescrito(registro, adjuntos_descargados, estado_final, motivo_rechazo) ==
    [ registro EXCEPT !.adjuntos_descargados = adjuntos_descargados,
                      !.estado_final = estado_final,
                      !.fase_proceso = "DESCARGA",
                      !.motivo_rechazo = motivo_rechazo ]

\* an actualizar_descarga() that appends the updated record instead of replacing it
actualizar_al_final(regs, entry_id, adjuntos_descargados, estado_final, motivo_rechazo) ==
    IF PosicionesDe(regs, entry_id) = { } THEN regs
    ELSE Append(regs,
                [ regs[CHOOSE i \in PosicionesDe(regs, entry_id) : TRUE]
                    EXCEPT !.adjuntos_descargados = adjuntos_descargados,
                           !.estado_final = estado_final,
                           !.fase_proceso = "DESCARGA" ])

\* the record actualizar_descarga() leaves in place of registro
RegistroActualizado(registro, adjuntos_descargados, estado_final, motivo_rechazo) ==
    [ registro EXCEPT !.adjuntos_descargados = adjuntos_descargados,
                      !.estado_final = estado_final,
                      !.fase_proceso = "DESCARGA",
                      !.motivo_rechazo = IF motivo_rechazo # "" THEN motivo_rechazo ELSE @ ]

\* the first record with this entry_id (the loop breaks after it)
PrimeraPosicion(regs, entry_id) ==
    CHOOSE i \in PosicionesDe(regs, entry_id) : \A j \in PosicionesDe(regs, entry_id) : i <= j

\* actualizar_descarga(): the ledger after the call
actualizar_descarga(regs, entry_id, adjuntos_descargados, estado_final, motivo_rechazo) ==
    IF PosicionesDe(regs, entry_id) = { } THEN regs
    ELSE [ regs EXCEPT ![PrimeraPosicion(regs, entry_id)] =
             RegistroActualizado(@, adjuntos_descargados, estado_final, motivo_rechazo) ]

\* a float that came out of a division of two counts, kept exact: num / den
Cociente(a, b) == [ num |-> a, den |-> b ]

\* the float x multiplied by the integer k
Por(x, k) == [ num |-> x.num * k, den |-> x.den ]

\* 0.0
CeroFloat == [ num |-> 0, den |-> 1 ]

\* len(df.filter(pl.col('tiene_adjuntos') == True))
ContarConAdjuntos(regs) == Cardinality({ i \in 1..Len(regs) : regs[i].tiene_adjuntos })

\* len(df.filter(pl.col('adjuntos_descargados') > 0))
ContarConDescargas(regs) ==
    Cardinality({ i \in 1..Len(regs) : regs[i].adjuntos_descargados > 0 })

\* len(df.filter(pl.col('estado_final') == estado))
ContarEstado(regs, estado) ==
    Cardinality({ i \in 1..Len(regs) : regs[i].estado_final = estado })

\* df['adjuntos_descargados'].sum()
RECURSIVE SumaDescargados(_)
SumaDescargados(regs) ==
    IF regs = << >> THEN 0 ELSE Head(regs).adjuntos_descargados + SumaDescargados(Tail(regs))

\* a success rate over all the records instead of the records with attachments
TasaSobreTotal(regs) ==
    IF Len(regs) > 0
    THEN Por(Cociente(ContarConDescargas(regs), Len(regs)), 100)
    ELSE CeroFloat

\* tasa_exito of get_estadisticas() on a ledger that is not empty
TasaExito(regs) ==
    IF ContarConAdjuntos(regs) > 0
    THEN Por(Cociente(ContarConDescargas(regs), ContarConAdjuntos(regs)), 100)
    ELSE CeroFloat

\* get_estadisticas(): the mapping it returns
get_estadisticas(regs) ==
    IF regs = << >>
    THEN [ tipo |-> "estadisticas", total_correos |-> 0, rechazados |-> 0, procesados |-> 0,
           con_adjuntos |-> 0, adjuntos_descargados |-> 0, tasa_exito |-> CeroFloat ]
    ELSE [ tipo |-> "estadisticas", total_correos |-> Len(regs),
           rechazados |-> ContarEstado(regs, "RECHAZADO"),
           procesados |-> ContarEstado(regs, "PROCESADO"),
           con_adjuntos |-> ContarConAdjuntos(regs),
           adjuntos_descargados |-> SumaDescargados(regs),
           tasa_exito |-> TasaExito(regs) ]

-----------------------------------------------------------------------------
(* ExtractorAdjuntosOutlook *)

UmbralEarlyExit == 100
MaxDiasRango == 365
LimiteSufijos == 1000

T_Ab == << "A", "b" >>
T_d == << "d" >>
T_frase == << " ", "a", "B" >>
T_blanco == << " " >>
T_destino == << "D" >>
T_carpeta == << "F" >>

Remitente == << "s" >>

\* the subjects and the attachment file names of the folder's messages
Asuntos == { T_Ab, T_d }
ListasAdjuntos == { << >>, << T_Ab >>, << T_d >>, << T_Ab, T_d >> }

\* ReceivedTime values: the day before the window, the window's day, the day after
FechasCorreo ==
    { [ dia |-> 0, tick |-> 2, tz |-> "aware" ], [ dia |-> 1, tick |-> 0, tz |-> "aware" ],
      [ dia |-> 1, tick |-> 2, tz |-> "aware" ], [ dia |-> 2, tick |-> 0, tz |-> "aware" ] }

Correos == [ ReceivedTime : FechasCorreo, Subject : Asuntos, Attachments : ListasAdjuntos ]

\* items.Sort("[ReceivedTime]", True): no message is older than its successor
Descendente(q) ==
    \A i \in 1..(Len(q) - 1) : ~Antes(q[i].ReceivedTime, q[i + 1].ReceivedTime)

\* the phrase lists the caller may give
FrasesPosibles == { << >>, << T_frase >>, << T_blanco >> }

D_1 == [ dia |-> 1, tick |-> 1, tz |-> "naive" ]

\* the parameters the caller may give: valid, blank destination, no start date,
\* start after end, range of more than a year
ParametrosPosibles ==
    { [ destino |-> T_destino, outlook_folder |-> T_carpeta, fecha_inicio |-> D_1, fecha_fin |-> D_1 ],
      [ destino |-> T_blanco, outlook_folder |-> T_carpeta, fecha_inicio |-> D_1, fecha_fin |-> D_1 ],
      [ destino |-> T_destino, outlook_folder |-> T_carpeta, fecha_inicio |-> NoneDate, fecha_fin |-> D_1 ],
      [ destino |-> T_destino, outlook_folder |-> T_carpeta,
        fecha_inicio |-> [ dia |-> 2, tick |-> 1, tz |-> "naive" ], fecha_fin |-> D_1 ],
      [ destino |-> T_destino, outlook_folder |-> T_carpeta, fecha_inicio |-> D_1,
        fecha_fin |-> [ dia |-> 400, tick |-> 1, tz |-> "naive" ] ] }

\* validar_parametros(frases, destino, outlook_folder, fecha_inicio, fecha_fin)
validar_parametros(dest, carpeta, inicio, fin) ==
    /\ dest # << >> /\ Strip(dest) # << >>
    /\ carpeta # << >> /\ Strip(carpeta) # << >>
    /\ validate_date_range(inicio, fin)
    /\ ~(fin.dia - inicio.dia > MaxDiasRango)

EstadisticasExtraccion ==
    [ total_correos |-> 0, correos_procesados |-> 0, adjuntos_descargados |-> 0,
      adjuntos_fallidos |-> 0, archivos_descargados |-> << >> ]

\* _generar_resultado()
GenerarResultado(est) ==
    [ tipo |-> "mapa", total_correos |-> est.total_correos,
      correos_procesados |-> est.correos_procesados,
      adjuntos_descargados |-> est.adjuntos_descargados,
      adjuntos_fallidos |-> est.adjuntos_fallidos ]

\* _generar_resultado_vacio()
GenerarResultadoVacio ==
    [ tipo |-> "mapa", total_correos |-> 0, correos_procesados |-> 0, adjuntos_descargados |-> 0,
      adjuntos_fallidos |-> 0 ]

\* the state before extraer_adjuntos(), for messages drawn from correos and a phrase
\* list drawn from listas; a call whose parameters are rejected never reads the folder
ExtInitDe(correos, listas) ==
    /\ ext_pc = "inactivo"
    /\ \E p \in ParametrosPosibles :
         /\ destino = p.destino
         /\ outlook_folder = p.outlook_folder
         /\ fecha_inicio = p.fecha_inicio
         /\ fecha_fin = p.fecha_fin
         /\ IF validar_parametros(p.destino, p.outlook_folder, p.fecha_inicio, p.fecha_fin)
            THEN /\ \E n \in 0..MaxItems :
                      items \in { q \in [1..n -> correos] : Descendente(q) }
                 /\ frases \in listas
            ELSE items = << >> /\ frases = << >>
    /\ idx = 1
    /\ correos_filtrados = << >>
    /\ fuera_rango_consecutivos = 0
    /\ registros = << >>
    /\ ext_cancelado = FALSE
    /\ est_ext = EstadisticasExtraccion
    /\ conectado = 0
    /\ ext_resultado = SinResultado
    /\ en_destino = { }
    /\ h_actualizaciones = << >>

ExtInit == ExtInitDe(Correos, FrasesPosibles)

\* a long folder in descending date order: the most recent messages on the window's
\* day, all the others on the day before
FlujoLargo(recientes) ==
    [ i \in 1..LargoFlujo |->
        [ ReceivedTime |-> [ dia |-> IF i <= recientes THEN 1 ELSE 0, tick |-> 2, tz |-> "aware" ],
          Subject |-> T_Ab, Attachments |-> << T_Ab >> ] ]

\* a long folder in descending date order: the first messages after the window's day,
\* the next ones on it, all the others on the day before
FlujoVentana(posteriores, recientes) ==
    [ i \in 1..LargoFlujo |->
        [ ReceivedTime |-> [ dia |-> IF i <= posteriores THEN 2
                                     ELSE IF i <= posteriores + recientes THEN 1 ELSE 0,
                             tick |-> 2, tz |-> "aware" ],
          Subject |-> T_Ab, Attachments |-> << T_Ab >> ] ]

\* the state before extraer_adjuntos() on a long folder, with no phrase
ExtInitFlujo ==
    /\ ext_pc = "inactivo"
    /\ destino = T_destino
    /\ outlook_folder = T_carpeta
    /\ fecha_inicio = D_1
    /\ fecha_fin = D_1
    /\ items \in { FlujoLargo(0), FlujoLargo(RecientesEnVentana) }
    /\ frases = << >>
    /\ idx = 1
    /\ correos_filtrados = << >>
    /\ fuera_rango_consecutivos = 0
    /\ registros = << >>
    /\ ext_cancelado = FALSE
    /\ est_ext = EstadisticasExtraccion
    /\ conectado = 0
    /\ ext_resultado = SinResultado
    /\ en_destino = { }
    /\ h_actualizaciones = << >>

\* an extraer_adjuntos() that goes on to connect without validating its parameters
ExtraerAdjuntosSinValidar ==
    /\ ext_pc = "inactivo"
    /\ fase_actual' = "INICIAL"
    /\ registros' = << >>
    /\ ext_pc' = "conectar"
    /\ UNCHANGED << estado_actual, conectado, ext_resultado, estado_antes_pausa, event_pausa,
                    event_cancelar, h_tras_pausa, items, frases, fecha_inicio, fecha_fin,
                    idx, correos_filtrados, fuera_rango_consecutivos, ext_cancelado,
                    est_ext, destino, outlook_folder, en_destino, h_actualizaciones,
                    cla_vars, aud_vars, obs_ctl, obs_not, mensaje_error, senales >>

\* a finally clause that keeps the session
SesionRetenida(sesiones) == sesiones

\* _desconectar_outlook(): one CoUninitialize
DesconectarOutlook(sesiones) == sesiones - 1

\* extraer_adjuntos() up to the validation of its parameters
ExtraerAdjuntos ==
    /\ ext_pc = "inactivo"
    /\ fase_actual' = "INICIAL"
    /\ registros' = << >>
    /\ IF validar_parametros(destino, outlook_folder, fecha_inicio, fecha_fin)
       THEN /\ ext_pc' = "conectar"
            /\ UNCHANGED << estado_actual, conectado, ext_resultado >>
       ELSE \* ValueError: except sets ERROR and raises, finally disconnects
            /\ estado_actual' = "ERROR"
            /\ conectado' = DesconectarOutlook(conectado)
            /\ ext_resultado' = Excepcion("ValueError")
            /\ ext_pc' = "lanzado"
    /\ UNCHANGED << estado_antes_pausa, event_pausa, event_cancelar, h_tras_pausa,
                    items, frases, fecha_inicio, fecha_fin, idx, correos_filtrados,
                    fuera_rango_consecutivos, ext_cancelado, est_ext, destino,
                    outlook_folder, en_destino, h_actualizaciones, cla_vars, aud_vars >>
    /\ IF ext_pc' = "lanzado"
       THEN Notificar("ERROR") /\ mensaje_error' = "ValueError"
       ELSE UNCHANGED << obs_not, mensaje_error >>
    /\ UNCHANGED << obs_ctl, senales >>

\* _conectar_outlook(), _obtener_carpeta() and the head of _filtrar_correos_optimizado()
Conectar ==
    /\ ext_pc = "conectar"
    /\ \E conexion_ok \in BOOLEAN, carpeta_ok \in BOOLEAN :
         IF conexion_ok /\ carpeta_ok
         THEN /\ conectado' = conectado + 1
              /\ fase_actual' = "FILTRADO"
              /\ estado_actual' = "FILTRANDO"
              /\ ext_pc' = IF Len(items) = 0 THEN "fin_filtrado" ELSE "filtrar"
              /\ UNCHANGED ext_resultado
         ELSE \* RuntimeError: except sets ERROR and raises, finally disconnects
              /\ (~conexion_ok => carpeta_ok)
              /\ conectado' = DesconectarOutlook(conectado + 1)
              /\ estado_actual' = "ERROR"
              /\ ext_resultado' = Excepcion("RuntimeError")
              /\ ext_pc' = "lanzado"
              /\ UNCHANGED fase_actual
    /\ idx' = 1
    /\ fuera_rango_consecutivos' = 0
    /\ correos_filtrados' = << >>
    /\ UNCHANGED << estado_antes_pausa, event_pausa, event_cancelar, h_tras_pausa,
                    items, frases, fecha_inicio, fecha_fin, registros, ext_cancelado,
                    est_ext, destino, outlook_folder, en_destino, h_actualizaciones,
                    cla_vars, aud_vars >>
    /\ IF ext_pc' = "lanzado"
       THEN Notificar("ERROR") /\ mensaje_error' = "RuntimeError"
       ELSE Notificar("FILTRANDO") /\ UNCHANGED mensaje_error
    /\ UNCHANGED << obs_ctl, senales >>

\* what may fail while the metadata of one message is read (at most one read per message)
Fallas == { "ninguna", "Item", "EntryID", "ReceivedTime", "Subject", "SenderEmailAddress",
            "AttachmentsCount", "AttachmentNames" }

\* the reads that have no try of their own: the exception reaches the loop's except
FallasSinCaptura == { "Item", "ReceivedTime", "Subject", "AttachmentsCount" }

\* an early exit that fires one message too soon
EarlyExitPrematuro(consecutivos) == consecutivos >= UmbralEarlyExit - 1

\* an early exit that lets one more message through
EarlyExitTardio(consecutivos) == consecutivos > UmbralEarlyExit

\* the early exit test on the counter of consecutive messages older than the window
EarlyExit(consecutivos) == consecutivos >= UmbralEarlyExit

\* the read failures explored for message i: any on the first MaxItems messages of the
\* folder, none further down
FallasDe(i) == IF i <= MaxItems THEN Fallas ELSE { "ninguna" }

\* cumple_frases of the filter stage
CumpleFrases(asunto, frases_norm) ==
    IF Len(frases_norm) = 0 THEN TRUE ELSE CoincideAlguna(Lower(asunto), frases_norm)

\* motivo_rechazo of a message inside the window that is not accepted
MotivoRechazo(cumple_frases, modo_sin_filtro, tiene_adjuntos) ==
    IF ~cumple_frases /\ ~modo_sin_filtro
    THEN IF ~tiene_adjuntos
         THEN "No coincide con frases de busqueda | No tiene adjuntos"
         ELSE "No coincide con frases de busqueda"
    ELSE IF ~tiene_adjuntos THEN "No tiene adjuntos" ELSE "Filtrado general"

\* the date test of the filter stage: "antes", "despues" or "dentro" of the window
RamaFecha(fecha_correo, inicio_norm, fin_norm) ==
    IF Antes(fecha_correo, inicio_norm) THEN "antes"
    ELSE IF Antes(fin_norm, fecha_correo) THEN "despues"
    ELSE "dentro"

\* the message is accepted
Aceptado(cumple_frases, tiene_adjuntos) == cumple_frases /\ tiene_adjuntos

\* one iteration of the scan loop of _filtrar_correos_optimizado() on message i
FiltrarCorreo ==
    /\ ext_pc = "filtrar"
    /\ \E falla \in FallasDe(idx) :
         LET item == items[idx]
             inicio_norm == get_day_start(fecha_inicio)
             fin_norm == get_day_end(fecha_fin)
             frases_norm == NormalizarFrases(frases)
             modo_sin_filtro == Len(frases_norm) = 0
             entry_id == IF falla = "EntryID" THEN << "UNKNOWN", idx >> ELSE << "ID", idx >>
             fecha_correo == normalize_to_naive(item.ReceivedTime)
             asunto == item.Subject
             remitente == IF falla = "SenderEmailAddress" THEN "UNKNOWN" ELSE Remitente
             num_adjuntos == Len(item.Attachments)
             tiene_adjuntos == num_adjuntos > 0
             adjuntos_nombres ==
                 IF ~tiene_adjuntos THEN << >>
                 ELSE IF falla = "AttachmentNames" THEN << "ERROR_READING_ATTACHMENTS" >>
                 ELSE item.Attachments
             rama == RamaFecha(fecha_correo, inicio_norm, fin_norm)
             cumple_frases == CumpleFrases(asunto, frases_norm)
             ultimo == idx = Len(items)
         IN
         IF falla \in FallasSinCaptura
         THEN \* except Exception: logger.error, continue
              /\ UNCHANGED << registros, correos_filtrados, fuera_rango_consecutivos >>
              /\ ext_pc' = IF ultimo THEN "fin_filtrado" ELSE "filtrar"
         ELSE IF rama = "antes"
         THEN /\ fuera_rango_consecutivos' = fuera_rango_consecutivos + 1
              /\ registros' = registrar_correo(registros, entry_id, fecha_correo, asunto,
                     remitente, FALSE, FALSE, tiene_adjuntos, num_adjuntos, adjuntos_nombres,
                     0, "RECHAZADO", "Fuera de rango de fechas (anterior al inicio)", "FILTRADO")
              /\ UNCHANGED correos_filtrados
              /\ ext_pc' = IF EarlyExit(fuera_rango_consecutivos + 1) \/ ultimo
                           THEN "fin_filtrado" ELSE "filtrar"
         ELSE IF rama = "despues"
         THEN /\ registros' = registrar_correo(registros, entry_id, fecha_correo, asunto,
                     remitente, FALSE, FALSE, tiene_adjuntos, num_adjuntos, adjuntos_nombres,
                     0, "RECHAZADO", "Fuera de rango de fechas (posterior al fin)", "FILTRADO")
              /\ UNCHANGED << correos_filtrados, fuera_rango_consecutivos >>
              /\ ext_pc' = IF ultimo THEN "fin_filtrado" ELSE "filtrar"
         ELSE /\ fuera_rango_consecutivos' = 0
              /\ IF Aceptado(cumple_frases, tiene_adjuntos)
                 THEN /\ correos_filtrados' = Append(correos_filtrados,
                            [ indice |-> idx, entry_id |-> entry_id, fecha |-> fecha_correo,
                              asunto |-> asunto, remitente |-> remitente,
                              num_adjuntos |-> num_adjuntos,
                              adjuntos_nombres |-> adjuntos_nombres ])
                      /\ registros' = registrar_correo(registros, entry_id, fecha_correo,
                            asunto, remitente, TRUE, TRUE, TRUE, num_adjuntos,
                            adjuntos_nombres, 0, "PROCESADO", "", "FILTRADO")
                 ELSE /\ UNCHANGED correos_filtrados
                      /\ registros' = registrar_correo(registros, entry_id, fecha_correo,
                            asunto, remitente, TRUE, cumple_frases, tiene_adjuntos,
                            num_adjuntos, adjuntos_nombres, 0, "RECHAZADO",
                            MotivoRechazo(cumple_frases, modo_sin_filtro, tiene_adjuntos),
                            "FILTRADO")
              \* "if self._cancelado: break" is reached on this path only
              /\ ext_pc' = IF ext_cancelado \/ ultimo THEN "fin_filtrado" ELSE "filtrar"
    /\ idx' = idx + 1
    /\ h_tras_pausa' = TrasPausa
    /\ UNCHANGED << estado_actual, fase_actual, estado_antes_pausa, event_pausa,
                    event_cancelar, items, frases, fecha_inicio, fecha_fin, ext_cancelado,
                    est_ext, conectado, ext_resultado, destino, outlook_folder,
                    en_destino, h_actualizaciones, cla_vars, aud_vars >>
    /\ UNCHANGED << obs_ctl, obs_not, mensaje_error, senales >>

\* a total that also counts the messages the scan rejected
TotalRevisados(correos) == Len(registros)

\* estadisticas.total_correos at the end of the scan: len(correos_filtrados)
TotalCorreos(correos) == Len(correos)

\* the end of _filtrar_correos_optimizado() and what extraer_adjuntos() does with its result
FinFiltrado ==
    /\ ext_pc = "fin_filtrado"
    /\ est_ext' = [ est_ext EXCEPT !.total_correos = TotalCorreos(correos_filtrados) ]
    /\ IF Len(correos_filtrados) = 0
       THEN \* "No se encontraron correos": the empty result, finally disconnects
            /\ ext_resultado' = GenerarResultadoVacio
            /\ conectado' = DesconectarOutlook(conectado)
            /\ ext_pc' = "retornado"
            /\ UNCHANGED << estado_actual, fase_actual, idx >>
       ELSE \* head of _descargar_adjuntos()
            /\ fase_actual' = "DESCARGA"
            /\ estado_actual' = "PROCESANDO"
            /\ idx' = 1
            /\ ext_pc' = "descargar"
            /\ UNCHANGED << ext_resultado, conectado >>
    /\ UNCHANGED << estado_antes_pausa, event_pausa, event_cancelar, h_tras_pausa,
                    items, frases, fecha_inicio, fecha_fin, correos_filtrados,
                    fuera_rango_consecutivos, registros, ext_cancelado, destino,
                    outlook_folder, en_destino, h_actualizaciones, cla_vars, aud_vars >>
    /\ IF ext_pc' = "descargar" THEN Notificar("PROCESANDO") ELSE UNCHANGED obs_not
    /\ UNCHANGED << obs_ctl, mensaje_error, senales >>

\* _manejar_nombre_duplicado(): a file of the destination is << name, suffix >>, suffix 0
\* for the name as it is, k for name_k, -1 for the timestamp fallback
ManejarNombreDuplicado(nombre, existentes) ==
    IF << nombre, 0 >> \notin existentes THEN << nombre, 0 >>
    ELSE IF \E k \in 1..LimiteSufijos : << nombre, k >> \notin existentes
    THEN << nombre, CHOOSE k \in 1..LimiteSufijos :
                       /\ << nombre, k >> \notin existentes
                       /\ \A j \in 1..(k - 1) : << nombre, j >> \in existentes >>
    ELSE << nombre, -1 >>

\* coincide_nombre of the download stage
CoincideNombre(nombre_archivo, frases_norm) ==
    IF Len(frases_norm) = 0 THEN TRUE ELSE CoincideAlguna(Lower(nombre_archivo), frases_norm)

\* an attachment loop that gives up the message at the first attachment that fails
RECURSIVE DescargarHastaFallo(_, _, _, _)
DescargarHastaFallo(adjuntos, guardado, frases_norm, acc) ==
    IF adjuntos = << >> THEN acc
    ELSE IF ~Head(guardado) THEN [ acc EXCEPT !.fallidos = @ + 1 ]
    ELSE LET ruta_archivo == ManejarNombreDuplicado(Head(adjuntos), acc.destino)
             sig == IF ~CoincideNombre(Head(adjuntos), frases_norm) THEN acc
                    ELSE [ destino |-> acc.destino \cup { ruta_archivo },
                           descargados |-> acc.descargados + 1,
                           fallidos |-> acc.fallidos,
                           archivos |-> Append(acc.archivos, ruta_archivo) ]
         IN  DescargarHastaFallo(Tail(adjuntos), Tail(guardado), frases_norm, sig)

\* the "for adjunto in item.Attachments" loop: acc is [ destino, descargados, fallidos,
\* archivos ]; guardado[k] tells whether reading and saving attachment k succeeds
RECURSIVE DescargarAdjuntosDe(_, _, _, _)
DescargarAdjuntosDe(adjuntos, guardado, frases_norm, acc) ==
    IF adjuntos = << >> THEN acc
    ELSE LET nombre_archivo == Head(adjuntos)
             ruta_archivo == ManejarNombreDuplicado(nombre_archivo, acc.destino)
             sig == IF ~Head(guardado)
                    THEN [ acc EXCEPT !.fallidos = @ + 1 ]
                    ELSE IF ~CoincideNombre(nombre_archivo, frases_norm)
                    THEN acc
                    ELSE [ destino |-> acc.destino \cup { ruta_archivo },
                           descargados |-> acc.descargados + 1,
                           fallidos |-> acc.fallidos,
                           archivos |-> Append(acc.archivos, ruta_archivo) ]
         IN  DescargarAdjuntosDe(Tail(adjuntos), Tail(guardado), frases_norm, sig)

\* the reason written when no attachment of the message was downloaded
MotivoSinDescarga(modo_sin_filtro) ==
    IF ~modo_sin_filtro THEN "Adjuntos no coinciden con frases de filtrado"
    ELSE "Error al descargar adjuntos"

\* a download loop that stops at the first message it cannot obtain
AbortarTrasError(ultimo) == "fin_descarga"

\* "continue" after GetItemFromID raised: the next descriptor, if there is one
SiguienteTrasError(ultimo) == IF ultimo THEN "fin_descarga" ELSE "descargar"

\* one iteration of the loop of _descargar_adjuntos() on descriptor idx
DescargarCorreo ==
    /\ ext_pc = "descargar"
    /\ LET correo_data == correos_filtrados[idx]
           entry_id == correo_data.entry_id
           frases_norm == NormalizarFrases(frases)
           modo_sin_filtro == Len(frases_norm) = 0
           ultimo == idx = Len(correos_filtrados)
       IN  \E obtenido \in BOOLEAN :
             IF ~obtenido \/ entry_id[1] = "UNKNOWN"
             THEN \* GetItemFromID raised: ERROR in the ledger, continue
                  /\ registros' = actualizar_descarga(registros, entry_id, 0, "ERROR",
                                                      "Error obteniendo correo")
                  /\ h_actualizaciones' = Append(h_actualizaciones, entry_id)
                  /\ ext_pc' = SiguienteTrasError(ultimo)
                  /\ UNCHANGED << est_ext, en_destino >>
             ELSE LET item == items[entry_id[2]]
                  IN  \* the enumeration of item.Attachments yields the first leidos
                      \* attachments and then ends, or raises: the outer except only logs
                      \E leidos \in 0..Len(item.Attachments), enumeracion_ok \in BOOLEAN :
                      \E guardado \in [ 1..leidos -> BOOLEAN ] :
                        LET r == DescargarAdjuntosDe(SubSeq(item.Attachments, 1, leidos),
                                     guardado, frases_norm,
                                     [ destino |-> en_destino, descargados |-> 0,
                                       fallidos |-> 0, archivos |-> << >> ])
                        IN  /\ enumeracion_ok => leidos = Len(item.Attachments)
                            /\ en_destino' = r.destino
                            /\ est_ext' =
                                 [ est_ext EXCEPT
                                     !.adjuntos_descargados = @ + r.descargados,
                                     !.adjuntos_fallidos = @ + r.fallidos,
                                     !.archivos_descargados = @ \o r.archivos,
                                     !.correos_procesados =
                                         IF enumeracion_ok THEN @ + 1 ELSE @ ]
                            /\ registros' =
                                 IF ~enumeracion_ok THEN registros
                                 ELSE IF r.descargados > 0
                                 THEN actualizar_descarga(registros, entry_id, r.descargados,
                                                          "PROCESADO", "")
                                 ELSE actualizar_descarga(registros, entry_id, 0, "PROCESADO",
                                                          MotivoSinDescarga(modo_sin_filtro))
                            /\ h_actualizaciones' =
                                 IF enumeracion_ok THEN Append(h_actualizaciones, entry_id)
                                 ELSE h_actualizaciones
                            /\ ext_pc' = IF ext_cancelado \/ ultimo
                                         THEN "fin_descarga" ELSE "descargar"
    /\ idx' = idx + 1
    /\ h_tras_pausa' = TrasPausa
    /\ UNCHANGED << estado_actual, fase_actual, estado_antes_pausa, event_pausa,
                    event_cancelar, items, frases, fecha_inicio, fecha_fin,
                    correos_filtrados, fuera_rango_consecutivos, ext_cancelado, conectado,
                    ext_resultado, destino, outlook_folder, cla_vars, aud_vars >>
    /\ UNCHANGED << obs_ctl, obs_not, mensaje_error, senales >>

\* after the download loop: the reports, the result, finally the disconnection
FinDescarga ==
    /\ ext_pc = "fin_descarga"
    /\ ext_resultado' = GenerarResultado(est_ext)
    /\ conectado' = DesconectarOutlook(conectado)
    /\ ext_pc' = "retornado"
    /\ UNCHANGED << base_vars, items, frases, fecha_inicio, fecha_fin, idx,
                    correos_filtrados, fuera_rango_consecutivos, registros, ext_cancelado,
                    est_ext, destino, outlook_folder, en_destino, h_actualizaciones,
                    cla_vars, aud_vars >>
    /\ UNCHANGED << obs_ctl, obs_not, mensaje_error, senales >>

\* the worker is inside _filtrar_correos_optimizado()
EnFiltrado == ext_pc \in { "filtrar", "fin_filtrado" }

\* ExtractorWorker.cancel(): BaseWorker.cancel() and ExtractorAdjuntosOutlook.cancelar(),
\* called from the controlling thread
CancelarExtractor ==
    /\ ext_pc # "ninguno"
    /\ ext_cancelado' = TRUE
    /\ UNCHANGED << base_vars, ext_pc, items, frases, fecha_inicio, fecha_fin, idx,
                    correos_filtrados, fuera_rango_consecutivos, registros, est_ext,
                    conectado, ext_resultado, destino, outlook_folder, en_destino,
                    h_actualizaciones, cla_vars, aud_vars >>
    /\ wk_cancelled' = TRUE
    /\ h_cancel_en_run' = (h_cancel_en_run \/ ext_pc # "inactivo")
    /\ h_cancel_filtrando' = (h_cancel_filtrando \/ EnFiltrado)
    /\ UNCHANGED << ctl_pc, h_llamada, h_cancel_chequeo, h_previa, obs_not, mensaje_error,
                    senales >>

\* BaseWorker.run() of an ExtractorWorker after process() ended
FinExtractorWorker ==
    /\ ext_pc \in { "retornado", "lanzado" }
    /\ senales' = SenalesTrasRun(ext_pc)
    /\ ext_pc' = "terminado"
    /\ UNCHANGED << base_vars, obs_ctl, obs_not, mensaje_error, items, frases, fecha_inicio,
                    fecha_fin, idx, correos_filtrados, fuera_rango_consecutivos, registros,
                    ext_cancelado, est_ext, conectado, ext_resultado, destino,
                    outlook_folder, en_destino, h_actualizaciones, cla_vars, aud_vars >>

-----------------------------------------------------------------------------
(* The saving of attachments on its own: any sequence of saves into a        *)
(* destination folder that already holds files.  All the saves fall within   *)
(* one second of the clock, so the timestamp suffix is the same for all.     *)

\* the suffixes of one name that may be taken in the destination before the saves
SufijosOcupados ==
    { { }, { 0 }, { 1 }, { 0, 1 }, { 0, 2 }, 0..(LimiteSufijos - 1), 0..LimiteSufijos,
      (0..LimiteSufijos) \cup { -1 } }

\* the files of the destination whose name is nombre, for a set of taken suffixes
ArchivosDe(nombre, sufijos) == { << nombre, k >> : k \in sufijos }

GuardarInit ==
    /\ ext_pc = "guardando"
    /\ \E s1 \in SufijosOcupados, s2 \in SufijosOcupados :
         en_destino = ArchivosDe(T_Ab, s1) \cup ArchivosDe(T_d, s2)
    /\ items = << >> /\ frases = << >>
    /\ fecha_inicio = D_1 /\ fecha_fin = D_1 /\ idx = 1
    /\ correos_filtrados = << >> /\ fuera_rango_consecutivos = 0 /\ registros = << >>
    /\ ext_cancelado = FALSE /\ est_ext = EstadisticasExtraccion /\ conectado = 1
    /\ ext_resultado = SinResultado /\ destino = T_destino /\ outlook_folder = T_carpeta
    /\ h_actualizaciones = << >>

\* the saving of one attachment that matches: the path is chosen, the file is written,
\* the counters and the per-file records follow
GuardarAdjunto ==
    /\ ext_pc = "guardando"
    /\ Len(est_ext.archivos_descargados) < MaxGuardados
    /\ \E nombre_archivo \in { T_Ab, T_d } :
         LET ruta_archivo == ManejarNombreDuplicado(nombre_archivo, en_destino)
         IN  /\ en_destino' = en_destino \cup { ruta_archivo }
             /\ est_ext' = [ est_ext EXCEPT !.adjuntos_descargados = @ + 1,
                                            !.archivos_descargados = Append(@, ruta_archivo) ]
    /\ UNCHANGED << base_vars, obs_ctl, obs_not, mensaje_error, senales, cla_vars, aud_vars,
                    ext_pc, items, frases, fecha_inicio, fecha_fin, idx, correos_filtrados,
                    fuera_rango_consecutivos, registros, ext_cancelado, conectado,
                    ext_resultado, destino, outlook_folder, h_actualizaciones >>

-----------------------------------------------------------------------------
(* EmailAuditor used on its own: any sequence of registrar_correo and       *)
(* actualizar_descarga calls                                                *)

IdsAuditor == { << "ID", 1 >>, << "ID", 2 >> }
EstadosRegistro == { "PROCESADO", "RECHAZADO" }
EstadosDescarga == { "PROCESADO", "ERROR" }
MotivosRegistro == { "", "No tiene adjuntos" }
MotivosDescarga == { "", "Error obteniendo correo" }

AudInit == aud_pc = "auditor" /\ aud_estadisticas = SinResultado

\* the auditor is not used on its own
AudQuieto == aud_pc = "ninguno" /\ aud_estadisticas = SinResultado

\* a call of registrar_correo()
RegistrarCorreo(entry_id, estado_final, motivo_rechazo) ==
    /\ aud_pc = "auditor"
    /\ Len(registros) < MaxRegistros
    /\ registros' = registrar_correo(registros, entry_id, D_1, T_d, Remitente, TRUE, TRUE,
                        TRUE, 1, << T_d >>, 0, estado_final, motivo_rechazo, "FILTRADO")
    /\ UNCHANGED << base_vars, cla_vars, ext_pc, items, frases, fecha_inicio, fecha_fin,
                    idx, correos_filtrados, fuera_rango_consecutivos, ext_cancelado,
                    est_ext, conectado, ext_resultado, destino, outlook_folder,
                    en_destino, h_actualizaciones, aud_vars >>
    /\ UNCHANGED << obs_ctl, obs_not, mensaje_error, senales >>

\* a call of actualizar_descarga()
ActualizarDescarga(entry_id, adjuntos_descargados, estado_final, motivo_rechazo) ==
    /\ aud_pc = "auditor"
    /\ registros' = actualizar_descarga(registros, entry_id, adjuntos_descargados,
                                        estado_final, motivo_rechazo)
    /\ UNCHANGED << base_vars, cla_vars, ext_pc, items, frases, fecha_inicio, fecha_fin,
                    idx, correos_filtrados, fuera_rango_consecutivos, ext_cancelado,
                    est_ext, conectado, ext_resultado, destino, outlook_folder,
                    en_destino, h_actualizaciones, aud_vars >>
    /\ UNCHANGED << obs_ctl, obs_not, mensaje_error, senales >>

Registrar ==
    \E e \in IdsAuditor, ef \in EstadosRegistro, m \in MotivosRegistro :
        RegistrarCorreo(e, ef, m)

Actualizar ==
    \E e \in IdsAuditor, n \in 0..1, ef \in EstadosDescarga, m \in MotivosDescarga :
        ActualizarDescarga(e, n, ef, m)

-----------------------------------------------------------------------------
(* The statistics of the ledger: records are registered as a run leaves them  *)
(* (with or without attachments, with or without downloads) and               *)
(* get_estadisticas() is called at any moment                                 *)

\* what a record may say about its attachments: tiene_adjuntos, adjuntos_descargados
ClasesDeRegistro ==
    { [ tiene |-> TRUE, descargados |-> 1 ], [ tiene |-> TRUE, descargados |-> 0 ],
      [ tiene |-> FALSE, descargados |-> 0 ] }

EstInit == aud_pc = "estadisticas" /\ aud_estadisticas = SinResultado

\* a call of registrar_correo() for the next message
RegistrarParaEstadisticas ==
    /\ aud_pc = "estadisticas"
    /\ Len(registros) < MaxLedger
    /\ \E c \in ClasesDeRegistro :
         registros' = registrar_correo(registros, << "ID", Len(registros) + 1 >>, D_1, T_d,
                          Remitente, TRUE, TRUE, c.tiene, IF c.tiene THEN 1 ELSE 0,
                          IF c.tiene THEN << T_d >> ELSE << >>, c.descargados,
                          IF c.tiene THEN "PROCESADO" ELSE "RECHAZADO",
                          IF c.tiene THEN "" ELSE "No tiene adjuntos", "FILTRADO")
    /\ aud_estadisticas' = SinResultado
    /\ UNCHANGED << base_vars, cla_vars, ext_pc, items, frases, fecha_inicio, fecha_fin,
                    idx, correos_filtrados, fuera_rango_consecutivos, ext_cancelado,
                    est_ext, conectado, ext_resultado, destino, outlook_folder,
                    en_destino, h_actualizaciones, aud_pc >>
    /\ UNCHANGED << obs_ctl, obs_not, mensaje_error, senales >>

\* a call of get_estadisticas()
GetEstadisticas ==
    /\ aud_pc = "estadisticas"
    /\ aud_estadisticas' = get_estadisticas(registros)
    /\ UNCHANGED << base_vars, cla_vars, ext_vars, aud_pc >>
    /\ UNCHANGED << obs_ctl, obs_not, mensaje_error, senales >>

-----------------------------------------------------------------------------
(* Specifications *)

\* a value the variables of a backend that is not running keep
ClaQuieto ==
    /\ cla_pc = "ninguno" /\ archivos = << >> /\ cla_idx = 1 /\ procesados = 0
    /\ est_cla = EstadisticasClasificacion /\ cancelado = FALSE
    /\ en_origen = { } /\ en_firmados = { } /\ en_sin_firmar = { }
    /\ cla_resultado = SinResultado /\ h_cancel_pausa = -1

ExtQuieto ==
    /\ ext_pc = "ninguno" /\ items = << >> /\ frases = << >>
    /\ fecha_inicio = NoneDate /\ fecha_fin = NoneDate /\ idx = 1
    /\ correos_filtrados = << >> /\ fuera_rango_consecutivos = 0 /\ registros = << >>
    /\ ext_cancelado = FALSE /\ est_ext = EstadisticasExtraccion /\ conectado = 0
    /\ ext_resultado = SinResultado /\ destino = << >> /\ outlook_folder = << >>
    /\ en_destino = { } /\ h_actualizaciones = << >>

\* an extraction run (ExtractorWorker.process); the controlling thread may cancel
Init == BaseInit /\ ExtInit /\ ClaQuieto /\ AudQuieto

Next ==
    \/ ExtraerAdjuntos
    \/ Conectar
    \/ FiltrarCorreo
    \/ FinFiltrado
    \/ DescargarCorreo
    \/ FinDescarga
    \/ FinExtractorWorker
    \/ CancelarExtractor

Spec == Init /\ [][Next]_vars

\* an extraction run over a long folder
InitFlujo == BaseInit /\ ExtInitFlujo /\ ClaQuieto /\ AudQuieto

SpecFlujo == InitFlujo /\ [][Next]_vars

\* extraer_adjuntos() on a long folder that may start with messages after the window
InitVentana ==
    /\ BaseInit /\ ClaQuieto /\ AudQuieto
    /\ ext_pc = "inactivo"
    /\ destino = T_destino
    /\ outlook_folder = T_carpeta
    /\ fecha_inicio = D_1
    /\ fecha_fin = D_1
    /\ items \in { FlujoVentana(p, r) : p \in 0..MaxPosteriores, r \in 0..1 }
    /\ frases = << >>
    /\ idx = 1
    /\ correos_filtrados = << >>
    /\ fuera_rango_consecutivos = 0
    /\ registros = << >>
    /\ ext_cancelado = FALSE
    /\ est_ext = EstadisticasExtraccion
    /\ conectado = 0
    /\ ext_resultado = SinResultado
    /\ en_destino = {}
    /\ h_actualizaciones = << >>

SpecVentana == InitVentana /\ [][Next]_vars

\* a classification run (ClassifierWorker.process); the controlling thread may pause,
\* resume and cancel
InitClasificador == BaseInit /\ ClaInit /\ ExtQuieto /\ AudQuieto

NextClasificador ==
    \/ Ejecutar
    \/ ProcesarPrincipal
    \/ Chequeo
    \/ VerificarPausa
    \/ ClasificarArchivo
    \/ Finalizar
    \/ EjecutarRetorno
    \/ FinClassifierWorker
    \/ CancelarClasificador
    \/ Pausar
    \/ Reanudar

SpecClasificador == InitClasificador /\ [][NextClasificador]_vars

\* a classification run with the calls of the controlling thread interleaved with the
\* worker thread between the test and the writes of pausar() and reanudar()
NextCarrera ==
    \/ NextClasificador
    \/ PausarPrueba
    \/ PausarEscritura
    \/ ReanudarPrueba
    \/ ReanudarEscritura

SpecCarrera == InitClasificador /\ [][NextCarrera]_vars

\* classification runs one after the other on the same folder; the controlling thread
\* may cancel each of them
NextRepetir ==
    \/ Ejecutar
    \/ ProcesarPrincipal
    \/ Chequeo
    \/ VerificarPausa
    \/ ClasificarArchivo
    \/ Finalizar
    \/ EjecutarRetorno
    \/ FinClassifierWorker
    \/ CancelarClasificador
    \/ NuevaCorrida

SpecRepetir == InitClasificador /\ [][NextRepetir]_vars

\* the steps of the worker thread of a classification run
PasoClasificador ==
    \/ Ejecutar
    \/ ProcesarPrincipal
    \/ Chequeo
    \/ ClasificarArchivo
    \/ Finalizar
    \/ EjecutarRetorno
    \/ FinClassifierWorker

\* a pausar() that took effect is followed by reanudar() or cancel()
AtenderPausa == (Reanudar \/ CancelarClasificador) /\ estado_actual = "PAUSADO" /\ ~event_pausa

\* a classification run under fair scheduling: the worker thread is not starved, a
\* set() of the pause event wakes the thread that waits on it, and the controlling
\* thread follows every pausar() with reanudar() or cancel()
SpecClasificadorJusto ==
    /\ InitClasificador
    /\ [][NextClasificador]_vars
    /\ WF_vars(PasoClasificador)
    /\ SF_vars(VerificarPausa)
    /\ WF_vars(AtenderPausa)

\* one backend of either kind, its run, and a controlling thread that may pause, resume
\* and cancel; the extraction runs over messages with one subject and no phrase
CorreosControl == { c \in Correos : c.Subject = T_Ab /\ c.Attachments \in { << >>, << T_Ab >> } }

InitControl ==
    \/ BaseInit /\ ExtInitDe(CorreosControl, { << >> }) /\ ClaQuieto /\ AudQuieto
    \/ InitClasificador

NextControl ==
    \/ ExtraerAdjuntos
    \/ Conectar
    \/ FiltrarCorreo
    \/ FinFiltrado
    \/ DescargarCorreo
    \/ FinDescarga
    \/ FinExtractorWorker
    \/ CancelarExtractor
    \/ NextClasificador

SpecControl == InitControl /\ [][NextControl]_vars

\* the saving of attachments on its own
InitGuardar == BaseInit /\ ClaQuieto /\ GuardarInit /\ AudQuieto

NextGuardar == GuardarAdjunto

SpecGuardar == InitGuardar /\ [][NextGuardar]_vars

\* the statistics of the ledger
InitEstadisticas == BaseInit /\ ClaQuieto /\ ExtQuieto /\ EstInit

NextEstadisticas == RegistrarParaEstadisticas \/ GetEstadisticas

SpecEstadisticas == InitEstadisticas /\ [][NextEstadisticas]_vars

\* the ledger on its own
InitAuditor == BaseInit /\ ClaQuieto /\ ExtQuieto /\ AudInit

NextAuditor == Registrar \/ Actualizar

SpecAuditor == InitAuditor /\ [][NextAuditor]_vars

-----------------------------------------------------------------------------
(* Properties *)

\* the message's normalized receipt time lies inside the window
EnVentana(c) ==
    LET t == normalize_to_naive(c.ReceivedTime)
    IN  ~Antes(t, get_day_start(fecha_inicio)) /\ ~Antes(get_day_end(fecha_fin), t)

\* inside the window, at least one attachment, and a phrase in the lower-cased subject
\* (or no phrase configured)
Califica(c) ==
    /\ EnVentana(c)
    /\ Len(c.Attachments) >= 1
    /\ \/ NormalizarFrases(frases) = << >>
       \/ \E k \in 1..Len(NormalizarFrases(frases)) :
            Contiene(Lower(c.Subject), NormalizarFrases(frases)[k])

\* how often message i is in the accepted list, and its audit records
VecesAceptado(i) ==
    Cardinality({ k \in 1..Len(correos_filtrados) : correos_filtrados[k].indice = i })

RegistrosDe(i) == { k \in 1..Len(registros) : registros[k].entry_id[2] = i }

\* C1: at the end of a filter scan without cancellation, every message inside the
\* window with an attachment and a matching subject is in the accepted list exactly
\* once, and every other scanned message is only a RECHAZADO audit record.
C1_FiltroCorrecto ==
    (ext_pc = "fin_filtrado" /\ ~ext_cancelado) =>
        /\ \A i \in 1..Len(items) : Califica(items[i]) => VecesAceptado(i) = 1
        /\ \A i \in 1..(idx - 1) :
             ~Califica(items[i]) =>
                 /\ VecesAceptado(i) = 0
                 /\ RegistrosDe(i) # { }
                 /\ \A k \in RegistrosDe(i) : registros[k].estado_final = "RECHAZADO"

\* C2: every message the filter scan has visited (1 .. idx - 1) has exactly one audit
\* record, whatever metadata read failed.
C2_UnRegistroPorVisitado ==
    ext_pc \in { "filtrar", "fin_filtrado" } =>
        \A i \in 1..(idx - 1) : Cardinality(RegistrosDe(i)) = 1

\* C3: on both backends a run that stopped its loop early because a checkpoint saw the
\* cancellation has returned a result mapping and is in CANCELADO.
C3_CanceladoAlTerminar ==
    /\ (ext_pc = "retornado" /\ Len(correos_filtrados) > 0 /\ idx <= Len(correos_filtrados))
          => (ext_resultado.tipo = "mapa" /\ estado_actual = "CANCELADO")
    /\ (cla_pc = "retornado" /\ cla_idx <= Len(archivos))
          => (cla_resultado.tipo = "mapa" /\ estado_actual = "CANCELADO")

\* C4: pausar() in a pausable state s records s and sets PAUSADO; while the state stays
\* PAUSADO the recorded state is kept; reanudar() in PAUSADO sets the state to the
\* recorded one.  So every pause / resume pair with no worker transition in between
\* returns to exactly s.
C4_PausaReanuda ==
    [][ /\ (Pausar /\ estado_actual \in EstadosPausables)
              => (estado_actual' = "PAUSADO" /\ estado_antes_pausa' = estado_actual)
        /\ (estado_actual = "PAUSADO" /\ estado_actual' = "PAUSADO")
              => estado_antes_pausa' = estado_antes_pausa
        /\ (Reanudar /\ estado_actual = "PAUSADO")
              => (estado_actual' = estado_antes_pausa /\ estado_actual' \in EstadosPausables)
      ]_vars

\* C4 witness: a pause taken in PROCESANDO has been resumed and the state is PROCESANDO
C4_Testigo ==
    /\ estado_actual = "PROCESANDO"
    /\ estado_antes_pausa = "PROCESANDO"
    /\ event_pausa
    /\ ext_pc = "descargar"

\* the files the classifier has moved
Movidos == Cardinality(en_firmados) + Cardinality(en_sin_firmar)

\* C5: after cancelar() found the classifier's worker blocked in the pause wait, no
\* further file is moved, and the run ends in CANCELADO.
C5_CancelEnPausa ==
    h_cancel_pausa # -1 =>
        /\ Movidos = h_cancel_pausa
        /\ cla_pc = "retornado" => estado_actual = "CANCELADO"

\* C6: when ejecutar() returns a result mapping, the state is CANCELADO if the
\* cancellation event is set at that moment and COMPLETADO otherwise.
C6_EstadoAlRetornar ==
    [][ (cla_pc # "retornado" /\ cla_pc' = "retornado" /\ cla_resultado'.tipo = "mapa")
            => estado_actual' = IF event_cancelar' THEN "CANCELADO" ELSE "COMPLETADO"
      ]_vars

\* C7: an extraction run enters FILTRANDO from INICIANDO, PROCESANDO from FILTRANDO, and
\* a run that returns its result without cancellation is in COMPLETADO.
C7_PlantillaExtraccion ==
    [][ /\ (estado_actual' = "FILTRANDO" /\ estado_actual # "FILTRANDO")
              => estado_actual = "INICIANDO"
        /\ (estado_actual' = "PROCESANDO" /\ estado_actual # "PROCESANDO")
              => estado_actual = "FILTRANDO"
        /\ (ext_pc # "retornado" /\ ext_pc' = "retornado" /\ ~ext_cancelado)
              => estado_actual' = "COMPLETADO"
      ]_vars

\* C8: while the state is PAUSADO and neither reanudar() nor cancelar() has been
\* called, the worker handles at most the item it was processing.
C8_PausaDetiene ==
    (estado_actual = "PAUSADO" /\ ~event_pausa /\ ~event_cancelar /\ ~cancelado
       /\ ~ext_cancelado) => h_tras_pausa <= 1

\* the ledger the original statement of C9 asks for: the first record with this
\* identifier gets the count, the outcome, the reason as given and the phase DESCARGA
C9_Original(regs, regs2, e, n, ef, m) ==
    IF PosicionesDe(regs, e) = { } THEN regs2 = regs
    ELSE LET k == CHOOSE i \in PosicionesDe(regs, e) :
                      \A j \in PosicionesDe(regs, e) : i <= j
         IN  /\ Len(regs2) = Len(regs)
             /\ \A i \in 1..Len(regs) : i # k => regs2[i] = regs[i]
             /\ regs2[k] = [ regs[k] EXCEPT !.adjuntos_descargados = n,
                                            !.estado_final = ef,
                                            !.motivo_rechazo = m,
                                            !.fase_proceso = "DESCARGA" ]

\* the same with the reason kept when the reason given is empty
C9_Enmendado(regs, regs2, e, n, ef, m) ==
    IF PosicionesDe(regs, e) = { } THEN regs2 = regs
    ELSE LET k == CHOOSE i \in PosicionesDe(regs, e) :
                      \A j \in PosicionesDe(regs, e) : i <= j
         IN  /\ Len(regs2) = Len(regs)
             /\ \A i \in 1..Len(regs) : i # k => regs2[i] = regs[i]
             /\ regs2[k].adjuntos_descargados = n
             /\ regs2[k].estado_final = ef
             /\ regs2[k].fase_proceso = "DESCARGA"
             /\ regs2[k].motivo_rechazo = IF m = "" THEN regs[k].motivo_rechazo ELSE m
             /\ \A f \in { "entry_id", "received_time", "subject", "sender", "cumple_fecha",
                           "cumple_frases", "tiene_adjuntos", "num_adjuntos",
                           "adjuntos_nombres" } : regs2[k][f] = regs[k][f]

\* C9 as stated: actualizar_descarga sets the reason to the one given, whatever it is.
C9_ActualizaTodo ==
    [][ \A e \in IdsAuditor, n \in 0..1, ef \in EstadosDescarga, m \in MotivosDescarga :
          ActualizarDescarga(e, n, ef, m) => C9_Original(registros, registros', e, n, ef, m)
      ]_vars

\* C9 amended: actualizar_descarga sets, on the first record with the identifier, the
\* downloaded count, the outcome and the phase DESCARGA, and the reason only when the
\* reason given is not empty (an empty one leaves the recorded reason); nothing else
\* changes, and an unknown identifier leaves the ledger unchanged.
C9_ActualizaEnSitio ==
    [][ \A e \in IdsAuditor, n \in 0..1, ef \in EstadosDescarga, m \in MotivosDescarga :
          ActualizarDescarga(e, n, ef, m) => C9_Enmendado(registros, registros', e, n, ef, m)
      ]_vars

\* C9 witness: a record updated with an empty reason kept the reason of its registration,
\* next to a record the update did not touch
C9_Testigo ==
    /\ aud_pc = "auditor"
    /\ \E k \in 1..Len(registros) :
         /\ registros[k].fase_proceso = "DESCARGA"
         /\ registros[k].motivo_rechazo = "No tiene adjuntos"
         /\ registros[k].adjuntos_descargados = 1
    /\ \E k \in 1..Len(registros) : registros[k].fase_proceso = "FILTRADO"

\* no identifier occurs twice
SinRepetidos(q) == \A i, j \in 1..Len(q) : i # j => q[i] # q[j]

\* C10: a step of the download stage neither adds a ledger record nor moves one, changes
\* at most the record of the descriptor it handles, and only if no earlier
\* actualizar_descarga call was made for that identifier.
C10_DescargaEnSitio ==
    [][ ext_pc = "descargar" =>
          /\ Len(registros') = Len(registros)
          /\ \A i \in 1..Len(registros) : registros'[i].entry_id = registros[i].entry_id
          /\ \A i \in 1..Len(registros) :
               registros'[i] # registros[i] =>
                   /\ registros[i].entry_id = correos_filtrados[idx].entry_id
                   /\ \A k \in 1..Len(h_actualizaciones) :
                        h_actualizaciones[k] # registros[i].entry_id
          /\ SinRepetidos(h_actualizaciones')
      ]_vars

\* C10 witness: the download stage is over, it made one update call for each of two
\* records (one could not be re-acquired, one had both attachments saved) and the
\* ledger still has its two records
C10_Testigo ==
    /\ ext_pc = "fin_descarga"
    /\ Len(h_actualizaciones) = 2
    /\ Len(registros) = 2
    /\ \A k \in 1..2 : registros[k].fase_proceso = "DESCARGA"
    /\ registros[1].estado_final = "ERROR"
    /\ registros[2].adjuntos_descargados = 2

\* a rejection of a message older than the window's start
AntesDelInicio(r) == r.motivo_rechazo = "Fuera de rango de fechas (anterior al inicio)"

\* C11: the scan never evaluates a message once 100 consecutive messages older than the
\* window have been audited: it stops right after auditing the 100th, before the end of
\* the folder; with RecientesEnVentana messages inside the window ahead of the older ones
\* the ledger has at most RecientesEnVentana + 100 records, and no 101 consecutive records
\* of the ledger are all "before the window's start" rejections.
C11_EarlyExit ==
    /\ fuera_rango_consecutivos <= 100
    /\ ext_pc = "filtrar" => fuera_rango_consecutivos < 100
    /\ Len(registros) <= RecientesEnVentana + 100
    /\ (ext_pc = "fin_filtrado" /\ fuera_rango_consecutivos = 100) =>
           /\ idx - 1 < Len(items)
           /\ registros[Len(registros)].entry_id[2] = idx - 1
           /\ AntesDelInicio(registros[Len(registros)])
    /\ \A i \in 1..(Len(registros) - 100) :
           \E j \in i..(i + 100) : ~AntesDelInicio(registros[j])

\* C11 witness: on the folder of LargoFlujo messages with RecientesEnVentana inside the
\* window the scan has stopped after message RecientesEnVentana + 100, every one audited
C11_Testigo ==
    /\ ext_pc = "fin_filtrado"
    /\ Len(items) = LargoFlujo
    /\ idx = RecientesEnVentana + 101
    /\ Len(registros) = RecientesEnVentana + 100
    /\ Len(correos_filtrados) = RecientesEnVentana
    /\ fuera_rango_consecutivos = 100

\* C12: the extractor never releases the COM session more often than it acquired it,
\* holds it at most once, and has released it when extraer_adjuntos has returned or raised.
C12_SesionBalanceada ==
    /\ conectado >= 0
    /\ conectado <= 1
    /\ ext_pc \in { "retornado", "lanzado", "terminado" } => conectado = 0

\* the states of a run in progress
EstadosEnMarcha == { "INICIANDO", "FILTRANDO", "PROCESANDO", "CLASIFICANDO", "EN_EJECUCION" }

\* an extraction whose parameters are rejected: nothing but the error has happened
C13_ExtraccionRechazada ==
    (ext_pc # "ninguno"
       /\ ~validar_parametros(destino, outlook_folder, fecha_inicio, fecha_fin)) =>
        /\ ext_pc \in { "inactivo", "lanzado", "terminado" }
        /\ estado_actual \notin EstadosEnMarcha
        /\ h_notificado \notin EstadosEnMarcha
        /\ conectado <= 0
        /\ registros = << >> /\ idx = 1 /\ correos_filtrados = << >>
        /\ ext_pc # "inactivo" =>
              /\ estado_actual = "ERROR"
              /\ mensaje_error # ""
              /\ ext_resultado = Excepcion("ValueError")

\* a classification whose parameters were rejected: nothing but the error has happened
C13_ClasificacionRechazada ==
    cla_resultado = Excepcion("ValueError") =>
        /\ cla_pc \in { "lanzado", "terminado" }
        /\ estado_actual = "ERROR"
        /\ h_notificado = "ERROR"
        /\ mensaje_error # ""
        /\ fase_actual = "INICIAL"
        /\ procesados = 0 /\ cla_idx = 1 /\ est_cla = EstadisticasClasificacion
        /\ en_firmados = { } /\ en_sin_firmar = { }

\* C13: when validation fails, ejecutar() goes from DETENIDO straight to ERROR with an
\* error-level message and raises: no state of a run in progress is entered and the run
\* function is not called; extraer_adjuntos() likewise raises without connecting to
\* Outlook and without scanning or auditing a message.
C13_ValidacionFallida ==
    [][ /\ C13_ExtraccionRechazada'
        /\ C13_ClasificacionRechazada'
        /\ (cla_resultado' = Excepcion("ValueError") /\ cla_resultado # Excepcion("ValueError"))
              => (cla_pc = "inactivo" /\ estado_actual = "DETENIDO" /\ h_notificado = "NINGUNO")
      ]_vars

\* C13 witness: an entry point has raised on rejected parameters and its worker has ended
C13_Testigo ==
    \/ /\ ext_pc = "terminado"
       /\ ext_resultado = Excepcion("ValueError")
       /\ estado_actual = "ERROR"
       /\ fecha_inicio = NoneDate
    \/ /\ cla_pc = "terminado"
       /\ cla_resultado = Excepcion("ValueError")
       /\ estado_actual = "ERROR"
       /\ Len(archivos) = MaxArchivos

\* C14: when _procesar_principal raises an exception other than InterruptedError,
\* ejecutar() sets ERROR, emits an error-level message with the exception's detail and
\* raises the same exception; from then on the state is never COMPLETADO, COMPLETADO is
\* not notified and no result mapping is handed back.
C14_ErrorEnProceso ==
    [][ /\ (cla_pc = "principal" /\ cla_pc' = "lanzado") =>
              /\ estado_actual' = "ERROR"
              /\ h_notificado' = "ERROR"
              /\ cla_resultado' = Excepcion("Exception")
              /\ mensaje_error' = cla_resultado'.nombre
        /\ cla_resultado.tipo = "excepcion" =>
              /\ cla_resultado' = cla_resultado
              /\ estado_actual' = "ERROR"
              /\ h_notificado' = "ERROR"
      ]_vars

\* C14 witness: the run function raised after INICIANDO and the worker has ended
C14_Testigo ==
    /\ cla_pc = "terminado"
    /\ cla_resultado = Excepcion("Exception")
    /\ mensaje_error = "Exception"
    /\ estado_actual = "ERROR"

\* the counters of the report add up to k
SumaReporte(r) == r.firmados + r.sin_firmar + r.omitidos + r.errores

\* C15: when cancel() is called with file k done and the checkpoint of file k + 1 not yet
\* reached, no further file is examined or moved, and the run returns in CANCELADO a
\* mapping whose counters add up to k.
C15_CancelTrasK ==
    h_cancel_chequeo # -1 =>
        /\ procesados = h_cancel_chequeo
        /\ Movidos <= h_cancel_chequeo
        /\ \A i \in (h_cancel_chequeo + 1)..Len(archivos) : archivos[i] \in en_origen
        /\ cla_pc \in { "chequeo", "finalizar", "post", "retornado", "terminado" }
        /\ cla_pc \in { "retornado", "terminado" } =>
              /\ estado_actual = "CANCELADO"
              /\ cla_resultado.tipo = "mapa"
              /\ SumaReporte(cla_resultado) = h_cancel_chequeo

\* C15 witness: cancelled after the first of two files, the run has returned
C15_Testigo ==
    /\ cla_pc = "retornado"
    /\ h_cancel_chequeo = 1
    /\ Len(archivos) = 2
    /\ estado_actual = "CANCELADO"
    /\ SumaReporte(cla_resultado) = 1

\* C16: a run is not cancelled by a cancel() made before it was started, while the state
\* was DETENIDO: unless cancel() is called during the run, no cancellation indicator is
\* set while the run's loops execute.
C16_CancelEnDetenido ==
    /\ (ext_pc \notin { "ninguno", "inactivo" } /\ ~h_cancel_en_run) => ~ext_cancelado
    /\ (cla_pc \notin { "ninguno", "inactivo", "principal" } /\ ~h_cancel_en_run)
          => (~cancelado /\ ~event_cancelar)

\* C17: pausar() in a state other than EN_EJECUCION, FILTRANDO, PROCESANDO, CLASIFICANDO
\* and reanudar() in a state other than PAUSADO leave the state, the recorded prior state
\* and the pause event as they were.
C17_LlamadaSinEfecto ==
    [][ /\ (Pausar /\ estado_actual \notin { "EN_EJECUCION", "FILTRANDO", "PROCESANDO",
                                             "CLASIFICANDO" })
              => UNCHANGED << estado_actual, estado_antes_pausa, event_pausa >>
        /\ (Reanudar /\ estado_actual # "PAUSADO")
              => UNCHANGED << estado_actual, estado_antes_pausa, event_pausa >>
      ]_vars

\* C17 witness: pausar() was called on a paused classifier and the recorded prior state
\* is still CLASIFICANDO
C17_Testigo ==
    /\ h_llamada = [ op |-> "pausar", en |-> "PAUSADO" ]
    /\ estado_actual = "PAUSADO"
    /\ estado_antes_pausa = "CLASIFICANDO"
    /\ ~event_pausa

\* the terminal signal a run that ended with this result has to emit
SenalDebida(resultado) == IF resultado.tipo = "mapa" THEN "finished" ELSE "error"

\* C18: a worker whose run has ended has emitted exactly one terminal signal, finished
\* when process() returned and error when it raised, cancelled or not; none before.
C18_UnaSenalTerminal ==
    /\ ext_pc = "terminado" => senales = << SenalDebida(ext_resultado) >>
    /\ cla_pc = "terminado" => senales = << SenalDebida(cla_resultado) >>
    /\ (ext_pc # "terminado" /\ cla_pc # "terminado") => senales = << >>

\* C19: callback_estado never receives the state it received just before, and the last
\* state it received is the process state.
C19_NotificacionUnica ==
    /\ ~h_repetido
    /\ h_notificado \in { "NINGUNO", estado_actual }

\* the markers as the classification rule lists them
C20_SinFirmar ==
    { << "s", "i", "n", " ", "f", "i", "r", "m", "a", "r" >>,
      << "s", "i", "n", "_", "f", "i", "r", "m", "a", "r" >>,
      << "s", "i", "n", "f", "i", "r", "m", "a", "r" >>,
      << "n", "o", "t", " ", "s", "i", "g", "n", "e", "d" >>,
      << "n", "o", "t", "_", "s", "i", "g", "n", "e", "d" >>,
      << "n", "o", "t", "s", "i", "g", "n", "e", "d" >> }

C20_Firmado == { << "f", "i", "r", "m", "a", "d", "o" >>, << "s", "i", "g", "n", "e", "d" >> }

C20_Marca(nombre, marcas) == \E m \in marcas : Contiene(Lower(nombre), m)

\* C20: a file that _clasificar_archivo moves goes to "Documentos sin Firmar" when its
\* lower-cased name has an unsigned marker, whether or not it has a signed marker too, and
\* to "Documentos Firmados" when it has a signed marker and no unsigned one; a file with
\* neither marker is not moved.
C20_PrioridadSinFirmar ==
    [][ ClasificarArchivo =>
          LET archivo == archivos[cla_idx] IN
          /\ (en_origen' # en_origen /\ C20_Marca(archivo, C20_SinFirmar))
                => (archivo \in en_sin_firmar' /\ archivo \notin en_firmados'
                    /\ est_cla'.sin_firmar = est_cla.sin_firmar + 1)
          /\ (en_origen' # en_origen /\ C20_Marca(archivo, C20_Firmado)
                /\ ~C20_Marca(archivo, C20_SinFirmar))
                => (archivo \in en_firmados' /\ archivo \notin en_sin_firmar'
                    /\ est_cla'.firmados = est_cla.firmados + 1)
          /\ (~C20_Marca(archivo, C20_Firmado) /\ ~C20_Marca(archivo, C20_SinFirmar))
                => (en_origen' = en_origen /\ est_cla'.omitidos = est_cla.omitidos + 1)
      ]_vars

\* C20 witness: signed_not_signed is in the unsigned folder and a name with only a signed
\* marker is in the signed folder
C20_Testigo ==
    /\ N_signed_not_signed \in en_sin_firmar
    /\ en_firmados # { }
    /\ cla_pc = "retornado"

\* the path chosen by the save of this step
C21_Ruta == est_ext'.archivos_descargados[Len(est_ext'.archivos_descargados)]

\* C21: a save never writes over a file of the destination: it takes the name as it is
\* when that is free, otherwise name_k for the smallest free k >= 1, and the timestamp
\* name only when name_1 .. name_1000 are all taken.
C21_NuncaSobrescribe ==
    [][ GuardarAdjunto =>
          LET nombre == C21_Ruta[1]
              k == C21_Ruta[2]
          IN  /\ C21_Ruta \notin en_destino
              /\ << nombre, 0 >> \notin en_destino => k = 0
              /\ << nombre, 0 >> \in en_destino => k # 0
              /\ k >= 1 => \A j \in 1..(k - 1) : << nombre, j >> \in en_destino
              /\ k = -1 => \A j \in 1..1000 : << nombre, j >> \in en_destino
      ]_vars

\* the number of records with attachments and of records with downloads, counted
\* record by record
RECURSIVE C22_Cuenta(_, _)
C22_Cuenta(regs, descargas) ==
    IF regs = << >> THEN 0
    ELSE (IF (IF descargas THEN Head(regs).adjuntos_descargados > 0
                           ELSE Head(regs).tiene_adjuntos) THEN 1 ELSE 0)
         + C22_Cuenta(Tail(regs), descargas)

\* C22: the success rate that get_estadisticas() returns is 100 times the number of
\* records with adjuntos_descargados > 0 divided by the number of records with
\* tiene_adjuntos, and 0 when no record has attachments; 6 of 10 give 60.
C22_TasaExito ==
    aud_estadisticas.tipo = "estadisticas" =>
        LET tasa == aud_estadisticas.tasa_exito
            con_adjuntos == C22_Cuenta(registros, FALSE)
            con_descargas == C22_Cuenta(registros, TRUE)
        IN  /\ tasa.den > 0
            /\ con_adjuntos > 0 => tasa.num * con_adjuntos = 100 * con_descargas * tasa.den
            /\ con_adjuntos = 0 => tasa.num = 0
            /\ (con_adjuntos = 10 /\ con_descargas = 6) => tasa.num = 60 * tasa.den

\* C22 witness: the statistics of a ledger of 10 records with attachments, 6 of them with
\* downloads
C22_Testigo ==
    /\ aud_estadisticas.tipo = "estadisticas"
    /\ Len(registros) = 10
    /\ C22_Cuenta(registros, FALSE) = 10
    /\ C22_Cuenta(registros, TRUE) = 6
    /\ aud_estadisticas.tasa_exito.num = 60 * aud_estadisticas.tasa_exito.den

\* C23: the pause checkpoint blocks only while the process is paused, and every
\* classification run whose pauses are followed by reanudar() or cancel() ends, under
\* fair scheduling, with the worker returned and the state COMPLETADO, CANCELADO or ERROR.
C23_TerminaEnEstadoFinal ==
    /\ [](cla_pc = "espera" /\ ~event_pausa => estado_actual = "PAUSADO")
    /\ <>(cla_pc = "terminado" /\ estado_actual \in { "COMPLETADO", "CANCELADO", "ERROR" })

\* C24: in the filter stage a message evaluated after cancel() was called is the last
\* one of the scan, whatever the outcome of its evaluation.
C24_ChequeoTrasCadaCorreo ==
    [][ (ext_pc = "filtrar" /\ idx' = idx + 1 /\ ext_cancelado) => ext_pc' = "fin_filtrado"
      ]_vars

\* C25: after a cancel() made during the filter stage no attachment is downloaded, and a
\* descriptor processed after cancel() was called is the last one of the download
\* stage, also when its message could not be obtained again.
C25_SinMasDescargas ==
    [][ /\ h_cancel_filtrando' =>
              (est_ext'.adjuntos_descargados = 0 /\ est_ext'.correos_procesados = 0)
        /\ (ext_pc = "descargar" /\ idx' = idx + 1 /\ ext_cancelado)
              => ext_pc' = "fin_descarga"
      ]_vars

\* the run of the classifier has ended in a terminal state
C26_RunTerminado ==
    /\ cla_pc \in { "retornado", "lanzado", "terminado" }
    /\ estado_actual \in { "COMPLETADO", "CANCELADO", "ERROR" }

\* C26: once the run has ended in COMPLETADO, CANCELADO or ERROR, no step of the
\* controlling thread or of the worker changes estado_actual.
C26_TerminalEstable ==
    [][ C26_RunTerminado => estado_actual' = estado_actual ]_vars

\* the number of actualizar_descarga calls the download stage made for this entry_id
RECURSIVE C27_Veces(_, _)
C27_Veces(llamadas, entry_id) ==
    IF llamadas = << >> THEN 0
    ELSE (IF Head(llamadas) = entry_id THEN 1 ELSE 0) + C27_Veces(Tail(llamadas), entry_id)

\* C27: when the download loop ends and no cancellation was requested, the record of
\* every accepted message has been updated exactly once by the download stage and its
\* phase is DESCARGA.
C27_TodosActualizados ==
    (ext_pc = "fin_descarga" /\ ~ext_cancelado) =>
        \A k \in 1..Len(correos_filtrados) :
            LET entry_id == correos_filtrados[k].entry_id IN
            /\ C27_Veces(h_actualizaciones, entry_id) = 1
            /\ \E i \in 1..Len(registros) :
                  registros[i].entry_id = entry_id /\ registros[i].fase_proceso = "DESCARGA"

\* the sum of adjuntos_descargados over the records of the ledger
RECURSIVE C28_SumaLedger(_)
C28_SumaLedger(regs) ==
    IF regs = << >> THEN 0 ELSE Head(regs).adjuntos_descargados + C28_SumaLedger(Tail(regs))

\* C28: when the download loop has ended, the sum of adjuntos_descargados over the ledger,
\* the adjuntos_descargados counter of the statistics and the number of per-file records
\* are the same number.
C28_LibrosDeAcuerdo ==
    ext_pc = "fin_descarga" =>
        /\ C28_SumaLedger(registros) = est_ext.adjuntos_descargados
        /\ est_ext.adjuntos_descargados = Len(est_ext.archivos_descargados)

\* the identifiers of the ledger records with outcome PROCESADO, in ledger order
RECURSIVE C29_Procesados(_)
C29_Procesados(regs) ==
    IF regs = << >> THEN << >>
    ELSE (IF Head(regs).estado_final = "PROCESADO"
          THEN << Head(regs).entry_id >> ELSE << >>) \o C29_Procesados(Tail(regs))

\* C29: when the filter stage ends, the identifiers of the accepted descriptors are the
\* identifiers of the ledger records with outcome PROCESADO, in the same order, and
\* total_correos is set to the number of them.
C29_AceptadosSonProcesados ==
    [][ (ext_pc = "fin_filtrado" /\ ext_pc' # "fin_filtrado") =>
           /\ [ k \in 1..Len(correos_filtrados) |-> correos_filtrados[k].entry_id ]
                  = C29_Procesados(registros)
           /\ est_ext'.total_correos = Len(C29_Procesados(registros)) ]_vars

\* the scan ended with an accepted message after a rejected one
C29_Testigo ==
    /\ ext_pc = "descargar" /\ idx = 1
    /\ Len(correos_filtrados) = 1 /\ Len(registros) = 2
    /\ registros[1].estado_final = "RECHAZADO"
    /\ est_ext.total_correos = 1

\* message i of the folder is older than the window's start
C30_BajoVentana(i) ==
    Antes(normalize_to_naive(items[i].ReceivedTime), get_day_start(fecha_inicio))

C31_Registro(k) ==
    CHOOSE r \in { registros[i] : i \in 1..Len(registros) } :
        r.entry_id = correos_filtrados[k].entry_id

\* C31: when the download loop has ended on a cancellation, the record of every accepted
\* message the loop did not reach carries a reason that is not empty.
C31_MotivoDeCancelacion ==
    (ext_pc = "fin_descarga" /\ ext_cancelado) =>
        \A k \in idx..Len(correos_filtrados) : C31_Registro(k).motivo_rechazo # ""

\* the position in the ledger of the first record with this identifier
C32_Posicion(regs, entry_id) ==
    CHOOSE i \in 1..Len(regs) :
        /\ regs[i].entry_id = entry_id
        /\ \A j \in 1..(i - 1) : regs[j].entry_id # entry_id

\* C32: a descriptor whose message cannot be obtained by its identifier (always the case
\* of an identifier that could not be read) gets outcome ERROR in its record; a download
\* step that leaves ERROR in the descriptor's record sets its downloaded count to 0 and a
\* non-empty reason, changes no other record, no counter and no file, and goes on with
\* the next descriptor when there is one.
C32_ErrorYContinua ==
    [][ (ext_pc = "descargar" /\ idx' = idx + 1) =>
          LET entry_id == correos_filtrados[idx].entry_id
              p == C32_Posicion(registros, entry_id)
          IN  /\ entry_id[1] = "UNKNOWN" => registros'[p].estado_final = "ERROR"
              /\ registros'[p].estado_final = "ERROR" =>
                    /\ registros[p].estado_final = "PROCESADO"
                    /\ registros'[p].adjuntos_descargados = 0
                    /\ registros'[p].motivo_rechazo # ""
                    /\ registros'[p].fase_proceso = "DESCARGA"
                    /\ Len(registros') = Len(registros)
                    /\ \A i \in 1..Len(registros) : i # p => registros'[i] = registros[i]
                    /\ est_ext' = est_ext
                    /\ en_destino' = en_destino
                    /\ idx < Len(correos_filtrados) => ext_pc' = "descargar" ]_vars

\* C32 witness: the first descriptor, with a readable identifier, could not be obtained
\* and the loop is at the second one with no message counted as processed
C32_Testigo ==
    /\ ext_pc = "descargar" /\ idx = 2
    /\ correos_filtrados[1].entry_id[1] = "ID"
    /\ registros[C32_Posicion(registros, correos_filtrados[1].entry_id)].estado_final = "ERROR"
    /\ est_ext.correos_procesados = 0

\* extraer_adjuntos() has raised the RuntimeError of a failed connection or folder
\* look-up: nothing was scanned, audited or saved and the session is released
C33_FalloDeConexion ==
    ext_resultado = Excepcion("RuntimeError") =>
        /\ ext_pc \in { "lanzado", "terminado" }
        /\ estado_actual = "ERROR"
        /\ h_notificado = "ERROR"
        /\ mensaje_error = "RuntimeError"
        /\ conectado = 0
        /\ registros = << >> /\ correos_filtrados = << >> /\ idx = 1
        /\ est_ext = EstadisticasExtraccion
        /\ h_actualizaciones = << >>

\* C33: when the connection to Outlook or the folder look-up fails, extraer_adjuntos()
\* sets ERROR and raises with the session released, straight from the connection step:
\* no message is scanned, audited or downloaded, the destination is not written, and the
\* export of the ledger is not reached.
C33_ErrorSinFiltrar ==
    [][ /\ C33_FalloDeConexion'
        /\ (ext_pc = "conectar" /\ ext_pc' # "conectar") =>
              \/ ext_pc' \in { "filtrar", "fin_filtrado" } /\ estado_actual' = "FILTRANDO"
              \/ ext_pc' = "lanzado" /\ ext_resultado' = Excepcion("RuntimeError")
        /\ ext_resultado' = Excepcion("RuntimeError") =>
              /\ en_destino' = en_destino
              /\ ext_pc \in { "conectar", "lanzado", "terminado" } ]_vars

\* C33 witness: the connection step has failed and the exception is with the caller
C33_Testigo ==
    /\ ext_pc = "lanzado"
    /\ ext_resultado = Excepcion("RuntimeError")
    /\ estado_actual = "ERROR"
    /\ conectado = 0
    /\ Len(items) > 0

\* C34: the step on which ejecutar() or extraer_adjuntos() rejects its parameters leaves
\* estado_actual as it was before the call.
C34_EstadoTrasRechazo ==
    [][ /\ (cla_resultado # Excepcion("ValueError") /\ cla_resultado' = Excepcion("ValueError"))
              => estado_actual' = estado_actual
        /\ (ext_resultado # Excepcion("ValueError") /\ ext_resultado' = Excepcion("ValueError"))
              => estado_actual' = estado_actual ]_vars

\* the attachments of the message whose names pass the filter of the download stage
C35_Coincidentes(adjuntos) ==
    { k \in 1..Len(adjuntos) : CoincideNombre(adjuntos[k], NormalizarFrases(frases)) }

\* C35: on a message whose attachments were all read, every attachment is saved, failed
\* or filtered out: the saved ones are the new per-file records and the new files of the
\* destination, saved plus failed is at most the number of attachments and at least the
\* number of attachments that pass the filter; and after a message with failed
\* attachments the loop goes on with the next descriptor unless the run was cancelled.
C35_FalloDeUnAdjunto ==
    [][ (ext_pc = "descargar" /\ idx' = idx + 1
           /\ est_ext'.correos_procesados = est_ext.correos_procesados + 1) =>
          LET adjuntos == items[correos_filtrados[idx].entry_id[2]].Attachments
              guardados == est_ext'.adjuntos_descargados - est_ext.adjuntos_descargados
              fallidos == est_ext'.adjuntos_fallidos - est_ext.adjuntos_fallidos
          IN  /\ guardados >= 0 /\ fallidos >= 0
              /\ Len(est_ext'.archivos_descargados)
                    = Len(est_ext.archivos_descargados) + guardados
              /\ Cardinality(en_destino') = Cardinality(en_destino) + guardados
              /\ guardados + fallidos <= Len(adjuntos)
              /\ guardados + fallidos >= Cardinality(C35_Coincidentes(adjuntos))
              /\ (idx < Len(correos_filtrados) /\ ~ext_cancelado) => ext_pc' = "descargar" ]_vars

\* C35 witness: of the two attachments of the first message one failed and the other was
\* saved, and the loop is at the second message
C35_Testigo ==
    /\ ext_pc = "descargar" /\ idx = 2
    /\ est_ext.correos_procesados = 1
    /\ est_ext.adjuntos_fallidos = 1
    /\ est_ext.adjuntos_descargados = 1
    /\ Len(est_ext.archivos_descargados) = 1

\* C36: when the move of a file that matches a marker fails (the file stays in the source
\* folder), errores grows by one, no other counter changes and the loop goes on with the
\* next file; a run that was not cancelled and returns a report with errors ends in
\* COMPLETADO.
C36_ErrorDeMovimiento ==
    [][ /\ (cla_pc = "clasificar" /\ cla_idx' = cla_idx + 1
              /\ Clasificacion(archivos[cla_idx]) # "omitido"
              /\ archivos[cla_idx] \in en_origen') =>
                 /\ est_cla'.errores = est_cla.errores + 1
                 /\ est_cla'.firmados = est_cla.firmados
                 /\ est_cla'.sin_firmar = est_cla.sin_firmar
                 /\ est_cla'.omitidos = est_cla.omitidos
                 /\ est_cla'.total = est_cla.total
                 /\ en_firmados' = en_firmados /\ en_sin_firmar' = en_sin_firmar
                 /\ cla_pc' = "chequeo"
        /\ (cla_pc = "post" /\ cla_pc' = "retornado"
              /\ cla_resultado'.errores > 0 /\ ~h_cancel_en_run') =>
                 /\ estado_actual' = "COMPLETADO"
                 /\ cla_resultado'.total = Len(archivos) ]_vars

\* C36 witness: a run of two files has ended in COMPLETADO, never cancelled, with one
\* file that could not be moved and one file moved after it
C36_Testigo ==
    /\ cla_pc = "terminado"
    /\ estado_actual = "COMPLETADO"
    /\ ~h_cancel_en_run
    /\ cla_resultado.tipo = "mapa"
    /\ cla_resultado.errores = 1
    /\ Len(archivos) = 2
    /\ archivos[1] \in en_origen /\ Clasificacion(archivos[1]) # "omitido"
    /\ archivos[2] \in en_firmados \cup en_sin_firmar

\* C37: at every point of a classification run firmados + sin_firmar + omitidos + errores
\* is the number of files whose classification has finished, it never exceeds the total,
\* the two counters of moved files are the sizes of the two destination folders, and a
\* run that has returned its report in COMPLETADO reports a sum equal to the total, the
\* number of files enumerated.
C37_SumaDeContadores ==
    /\ SumaReporte(est_cla) = procesados
    /\ procesados = cla_idx - 1
    /\ (cla_pc \in { "chequeo", "espera", "clasificar", "finalizar", "post" }
          \/ cla_resultado.tipo = "mapa") =>
          /\ est_cla.total = Len(archivos)
          /\ SumaReporte(est_cla) <= est_cla.total
    /\ est_cla.firmados = Cardinality(en_firmados)
    /\ est_cla.sin_firmar = Cardinality(en_sin_firmar)
    /\ (cla_pc \in { "retornado", "terminado" } /\ cla_resultado.tipo = "mapa"
          /\ estado_actual = "COMPLETADO") =>
             /\ SumaReporte(cla_resultado) = cla_resultado.total
             /\ cla_resultado.total = Len(archivos)

\* C37 witness: a run of two files has ended in COMPLETADO with one file skipped and one
\* file moved
C37_Testigo ==
    /\ cla_pc = "terminado"
    /\ estado_actual = "COMPLETADO"
    /\ cla_resultado.tipo = "mapa"
    /\ cla_resultado.total = 2
    /\ cla_resultado.omitidos = 1
    /\ cla_resultado.firmados + cla_resultado.sin_firmar = 1

\* the three folders of a classification
C38_Carpetas == << en_origen, en_firmados, en_sin_firmar >>

C39_PreviaSinErrores ==
    /\ h_previa.estado = "COMPLETADO"
    /\ h_previa.reporte.tipo = "mapa"
    /\ h_previa.reporte.errores = 0

\* C39: in a run on a folder that a previous run classified to completion without
\* errors, no step moves a file (the source folder and the two destination folders keep
\* their contents), and the report the run returns has firmados = 0 and sin_firmar = 0.
C39_Idempotente ==
    [][ C39_PreviaSinErrores =>
          /\ C38_Carpetas' = C38_Carpetas
          /\ est_cla'.firmados = 0
          /\ est_cla'.sin_firmar = 0
          /\ cla_resultado'.tipo = "mapa" =>
                (cla_resultado'.firmados = 0 /\ cla_resultado'.sin_firmar = 0)
      ]_vars

\* C39 witness: the second run has completed on a folder in which the first run moved a
\* file and skipped another
C39_Testigo ==
    /\ C39_PreviaSinErrores
    /\ h_previa.reporte.omitidos = 1
    /\ h_previa.reporte.firmados + h_previa.reporte.sin_firmar = 1
    /\ cla_pc = "terminado"
    /\ estado_actual = "COMPLETADO"
    /\ cla_resultado.tipo = "mapa"
    /\ cla_resultado.total = 1
    /\ cla_resultado.omitidos = 1

=============================================================================
